---- MODULE Spec2Model ----
(***************************************************************************)
(* Iris fetch orchestrator: the request pipeline (routes/fetch.py), the    *)
(* page fetcher with its retry loop and page semaphore (fetcher.py), the   *)
(* response cache (cache.py) and the per-domain rate limiter               *)
(* (rate_limiter.py).                                                      *)
(*                                                                         *)
(* Time is counted in seconds.  Every await of the code is a step of its   *)
(* own; what runs between two awaits is one step.                          *)
(***************************************************************************)
EXTENDS Integers, Sequences, FiniteSets, TLC

(***************************************************************************)
(* Bounds of the model and configuration values.                           *)
(***************************************************************************)
\* Number of client requests that may be in flight together.
NumRequests == 2

\* Settings.MAX_CONCURRENT_PAGES: the number of page slots.
MAX_CONCURRENT_PAGES == 1

\* Settings.MAX_RETRIES as the retry tests configure it.
MAX_RETRIES == 2

\* Settings.MIN_DELAY_BETWEEN_REQUESTS_MS (1000 ms), in seconds.
MIN_DELAY_BETWEEN_REQUESTS == 1

\* The burst of DomainRateLimiter as the limiter tests configure it.
BURST == 2

Requests == 1..NumRequests

Max(a, b) == IF a >= b THEN a ELSE b

RECURSIVE Pow2(_)
\* 2 ** n of fetcher.py line 269.
Pow2(n) == IF n = 0 THEN 1 ELSE 2 * Pow2(n - 1)

(***************************************************************************)
(* URLs.  urlparse splits a URL into scheme, netloc and path; the path is  *)
(* kept as its sequence of segments.                                       *)
(***************************************************************************)
UrlPage == [href |-> "https://example.com/page", scheme |-> "https",
            netloc |-> "example.com", path |-> <<"page">>]

UrlSecret == [href |-> "https://blocked.example.com/secret/x", scheme |-> "https",
              netloc |-> "blocked.example.com", path |-> <<"secret", "x">>]

UrlInvalid == [href |-> "not-a-url", scheme |-> "", netloc |-> "",
               path |-> <<"not-a-url">>]

Urls == {UrlPage, UrlSecret, UrlInvalid}

\* f"{parsed.scheme}://{parsed.netloc}" of robots_handler.py line 48.
Origin(url) == <<url.scheme, url.netloc>>

\* The robots.txt rules the origins serve: per origin the Disallow path
\* prefixes that apply to the configured user agent.
RobotsTxt(origin) ==
    IF origin = <<"https", "blocked.example.com">> THEN {<<"secret">>} ELSE {}

IsPrefix(p, s) == Len(p) <= Len(s) /\ SubSeq(s, 1, Len(p)) = p

\* RobotFileParser.can_fetch on the rules of the URL's origin.
RobotsAllows(url) == \A p \in RobotsTxt(Origin(url)) : ~IsPrefix(p, url.path)

(***************************************************************************)
(* FetchError, FetchResult, FetchResponse (schemas.py, fetcher.py).        *)
(***************************************************************************)
NoError == [type |-> "none", retryable |-> FALSE, http_status |-> 0]

FetchError(t, retry, status) == [type |-> t, retryable |-> retry, http_status |-> status]

\* Exceptions the browser raises, by class and by the keywords their
\* lower-cased message contains.
ExcTimeout == [cls |-> "TimeoutError", words |-> {"timeout"}]
ExcCrash == [cls |-> "RuntimeError", words |-> {}]
Exceptions == {ExcTimeout, ExcCrash}

\* The keywords classify_error looks for in the lower-cased message.
Keywords == {"timeout", "dns", "name resolution", "getaddrinfo", "ssl",
             "certificate", "connection", "reset", "refused", "broken pipe"}

\* Every exception by what classify_error can tell of it: its class
\* (TimeoutError, ConnectionError or another) and the keywords in its message.
AllExceptions ==
    [cls : {"TimeoutError", "ConnectionError", "RuntimeError"}, words : SUBSET Keywords]

classify_error(exc) ==
    IF exc.cls = "TimeoutError" \/ "timeout" \in exc.words
    THEN FetchError("timeout", TRUE, 0)
    ELSE IF exc.words \cap {"dns", "name resolution", "getaddrinfo"} # {}
    THEN FetchError("dns_error", TRUE, 0)
    ELSE IF exc.words \cap {"ssl", "certificate"} # {}
    THEN FetchError("ssl_error", FALSE, 0)
    ELSE IF exc.words \cap {"connection", "reset", "refused", "broken pipe"} # {}
            \/ exc.cls = "ConnectionError"
    THEN FetchError("connection_error", TRUE, 0)
    ELSE FetchError("browser_error", FALSE, 0)

RETRYABLE_STATUS_CODES == {429, 502, 503, 504}

\* The statuses _fetch_once takes for errors (status_code >= 400, line 348).
ErrorStatuses == {400, 401, 403, 404, 429, 500, 502, 503, 504}

\* A classification that retries every server error.
classify_http_error_5xx(status_code) ==
    IF status_code = 429
    THEN FetchError("rate_limited", TRUE, status_code)
    ELSE FetchError("http_error", status_code >= 500, status_code)

classify_http_error(status_code) ==
    IF status_code = 429
    THEN FetchError("rate_limited", TRUE, status_code)
    ELSE FetchError("http_error", status_code \in RETRYABLE_STATUS_CODES, status_code)

\* FetchResult.__init__ : html is the kind of payload carried, raw_bytes is
\* "none" (None), "empty" (b"") or "data", screenshot_bytes whether PNG bytes
\* are present.
FetchResult(url, status, html, shot, err, ctype, raw) ==
    [url |-> url.href, status_code |-> status, html |-> html,
     screenshot_bytes |-> shot, error |-> err, content_type |-> ctype,
     raw_bytes |-> raw, fetch_time_ms |-> 0]

NoResult == [url |-> "", status_code |-> -1, html |-> "", screenshot_bytes |-> FALSE,
             error |-> NoError, content_type |-> "", raw_bytes |-> "none",
             fetch_time_ms |-> 0]

HTML_TYPES == {"text/html", "application/xhtml+xml"}
PDF_TYPES == {"application/pdf"}
JSON_TYPES == {"application/json"}
TEXT_TYPES == {"text/plain"}
\* The types that start with "image/" (line 413).
ImageTypes == {"image/png", "image/bmp"}

\* The Content-Type headers and statuses the sites answer with.
NoHeader == "absent"
Headers == {NoHeader, "text/html", "application/pdf", "application/json",
            "text/plain", "image/png", "application/zip"}
Statuses == {200, 404, 503}

\* Header values that are not in canonical form, with what
\* header.split(";")[0].strip().lower() makes of each.
Canonical ==
    [h \in {"text/html; charset=utf-8", "Application/JSON", " image/png "} |->
        CASE h = "text/html; charset=utf-8" -> "text/html"
          [] h = "Application/JSON" -> "application/json"
          [] h = " image/png " -> "image/png"]

\* _get_content_type: an absent header counts as text/html, any other is
\* cut at its first ";", stripped and lowered.
get_content_type(header) ==
    IF header = NoHeader THEN "text/html"
    ELSE IF header \in DOMAIN Canonical THEN Canonical[header]
    ELSE header

\* What new_page and page.close can do: succeed, or raise.
CallOutcomes == [ok : {TRUE}, exc : {ExcCrash}] \cup [ok : {FALSE}, exc : Exceptions]

\* What one navigation can do: goto (or a later call on the page) raises,
\* goto returns no response, or it returns a response; body is whether the
\* response body has bytes.
NavOutcomes ==
    [kind : {"raise"}, exc : Exceptions, status : {0}, header : {NoHeader}, body : {TRUE}]
    \cup [kind : {"none"}, exc : {ExcCrash}, status : {0}, header : {NoHeader}, body : {TRUE}]
    \cup [kind : {"response"}, exc : {ExcCrash}, status : {200}, header : Headers,
          body : {TRUE}]
    \cup [kind : {"response"}, exc : {ExcCrash}, status : {200},
          header : {"application/pdf"}, body : {FALSE}]
    \cup [kind : {"response"}, exc : {ExcCrash}, status : Statuses \ {200},
          header : {"text/html"}, body : {TRUE}]

\* A document whose path ends in .pdf, and _is_pdf_url: the last segment of
\* the path is such a name.
UrlPdf == [href |-> "https://example.com/doc.pdf", scheme |-> "https",
           netloc |-> "example.com", path |-> <<"doc.pdf">>]

is_pdf_url(url) ==
    url.path # <<>> /\ url.path[Len(url.path)] \in {"doc.pdf"}

\* PageFetcher._fetch_once from the navigation on (lines 336-479): the
\* FetchResult one attempt yields for what the navigation did, every one
\* with fetch_time_ms = elapsed_ms.
fetch_once(url, take_screenshot, nav, elapsed_ms) ==
    LET status_code == IF nav.kind = "response" THEN nav.status ELSE 0
        content_type == get_content_type(IF nav.kind = "response" THEN nav.header
                                         ELSE NoHeader)
        result ==
            IF nav.kind = "raise"
            THEN FetchResult(url, 0, "", FALSE, classify_error(nav.exc), "text/html",
                             "none")
            ELSE IF status_code >= 400
            THEN FetchResult(url, status_code, "", FALSE,
                             classify_http_error(status_code), content_type, "none")
            ELSE IF content_type \in PDF_TYPES
                    \/ (is_pdf_url(url) /\ content_type = "application/octet-stream")
            THEN FetchResult(url, status_code, "", FALSE, NoError, "application/pdf",
                             IF nav.body THEN "data" ELSE "empty")
            ELSE IF content_type \in JSON_TYPES
            THEN FetchResult(url, status_code, IF nav.body THEN "json" ELSE "", FALSE,
                             NoError, "application/json", "none")
            ELSE IF content_type \in TEXT_TYPES
            THEN FetchResult(url, status_code, "text", FALSE, NoError, "text/plain",
                             "none")
            ELSE IF content_type \in ImageTypes
            THEN FetchResult(url, status_code, "", FALSE, NoError, content_type, "none")
            ELSE IF content_type \notin HTML_TYPES
            THEN FetchResult(url, status_code, "", FALSE,
                             FetchError("unsupported_content_type", FALSE, 0),
                             content_type, "none")
            ELSE FetchResult(url, status_code, "html", take_screenshot, NoError,
                             content_type, "none")
    IN  [result EXCEPT !.fetch_time_ms = elapsed_ms]

\* The wait strategies of a request (schemas.WaitStrategy).
AllStrategies == {"load", "networkidle", "selector", "timeout", "domcontentloaded"}

\* SmartWaiter.wait: the calls it makes on the page and whether it raises.
\* selector is whether a selector was passed, fails whether the page's
\* load-state or selector wait raises; both of those sit in try/except.
SmartWaiter_wait(strategy, selector, wait_ms, fails) ==
    IF strategy \in {"networkidle", "domcontentloaded"}
    THEN [calls |-> <<"wait_for_load_state">>, raised |-> FALSE]
    ELSE IF strategy = "selector" /\ selector
    THEN [calls |-> <<"wait_for_selector">>, raised |-> FALSE]
    ELSE IF strategy = "timeout" /\ wait_ms > 0
    THEN [calls |-> <<"wait_for_timeout">>, raised |-> FALSE]
    ELSE [calls |-> <<>>, raised |-> FALSE]

\* An HTML arm that always adds the post-wait delay.
html_waits_Twice(wait_strategy, selector, wait_ms, fails) ==
    LET waited == IF wait_strategy # "load"
                  THEN SmartWaiter_wait(wait_strategy, selector, wait_ms, fails)
                  ELSE [calls |-> <<>>, raised |-> FALSE]
    IN  [waited EXCEPT !.calls = @ \o (IF wait_ms > 0
                                       THEN <<"wait_for_timeout">> ELSE <<>>)]

\* The waits of the HTML arm of _fetch_once (lines 439-453): the wait engine
\* unless the strategy is load, then the fixed delay unless the strategy is
\* timeout or the wait engine raised.
html_waits(wait_strategy, selector, wait_ms, fails) ==
    LET waited == IF wait_strategy # "load"
                  THEN SmartWaiter_wait(wait_strategy, selector, wait_ms, fails)
                  ELSE [calls |-> <<>>, raised |-> FALSE]
    IN  IF waited.raised THEN waited
        ELSE [waited EXCEPT !.calls =
                  @ \o (IF wait_ms > 0 /\ wait_strategy # "timeout"
                        THEN <<"wait_for_timeout">> ELSE <<>>)]

\* An attempt that reads the page before it looks at the status.
page_calls_ReadFirst(url, take_screenshot, nav, wait_strategy, selector, wait_ms, fails) ==
    IF nav.kind # "response" THEN <<>>
    ELSE html_waits(wait_strategy, selector, wait_ms, fails).calls
             \o <<"page.content">>

\* The calls _fetch_once makes on the page and the response after goto has
\* returned (lines 348-453), in order.
page_calls(url, take_screenshot, nav, wait_strategy, selector, wait_ms, fails) ==
    LET status_code == IF nav.kind = "response" THEN nav.status ELSE 0
        content_type == get_content_type(IF nav.kind = "response" THEN nav.header
                                         ELSE NoHeader)
        waited == html_waits(wait_strategy, selector, wait_ms, fails)
    IN  IF nav.kind = "raise" THEN <<>>
        ELSE IF status_code >= 400 THEN <<>>
        ELSE IF content_type \in PDF_TYPES
                \/ (is_pdf_url(url) /\ content_type = "application/octet-stream")
        THEN IF nav.kind = "response" THEN <<"response.body">> ELSE <<>>
        ELSE IF content_type \in JSON_TYPES
        THEN IF nav.kind = "response" THEN <<"response.body">> ELSE <<>>
        ELSE IF content_type \in TEXT_TYPES THEN <<"page.content">>
        ELSE IF content_type \in ImageTypes THEN <<>>
        ELSE IF content_type \notin HTML_TYPES THEN <<>>
        ELSE IF waited.raised THEN waited.calls
        ELSE waited.calls \o <<"page.content">>
                 \o (IF take_screenshot THEN <<"page.screenshot">> ELSE <<>>)

\* _fetch_once with its waits: the result of fetch_once, unless the HTML arm
\* is taken and a wait raises, which the except clause classifies
\* (lines 469-478).
fetch_once_waited(url, take_screenshot, nav, wait_strategy, selector, wait_ms, fails) ==
    LET plain == fetch_once(url, take_screenshot, nav, 0)
    IN  IF /\ plain.error = NoError
           /\ plain.html = "html"
           /\ html_waits(wait_strategy, selector, wait_ms, fails).raised
        THEN FetchResult(url, 0, "", FALSE, classify_error(ExcTimeout), "text/html",
                         "none")
        ELSE plain

(***************************************************************************)
(* Requests and responses (schemas.py).                                    *)
(***************************************************************************)
\* WaitStrategy (schemas.py lines 11-18): the default, and one that waits
\* for dynamic content.
WaitStrategies == {"load", "networkidle"}

ReqInputs ==
    {q \in [url : Urls, cache : BOOLEAN, screenshot : BOOLEAN,
            wait_strategy : {"load"},
            extract_text : {TRUE}, extract_links : {FALSE},
            extract_metadata : {TRUE}] :
        /\ q.url = UrlSecret => ~q.cache /\ ~q.screenshot
        /\ q.url = UrlInvalid => ~q.screenshot}

\* The requests of the concurrent clients: one page, cached with either
\* wait strategy, or not cached.
PoolInputs ==
    {q \in [url : {UrlPage, UrlInvalid}, cache : BOOLEAN, screenshot : {FALSE},
            wait_strategy : WaitStrategies,
            extract_text : {TRUE}, extract_links : {FALSE},
            extract_metadata : {TRUE}] :
        /\ ~q.cache => q.wait_strategy = "load"
        /\ q.url = UrlInvalid => ~q.cache}

NoReq == [url |-> UrlInvalid, cache |-> FALSE, screenshot |-> FALSE,
          wait_strategy |-> "load",
          extract_text |-> TRUE, extract_links |-> FALSE, extract_metadata |-> TRUE]

\* FetchResponse; http is the status the route answers with.
FetchResponse(url, status, text, meta, links, shot, sdata, err) ==
    [http |-> 200, url |-> url, status_code |-> status, content_text |-> text,
     metadata |-> meta, links |-> links, screenshot_base64 |-> shot,
     structured_data |-> sdata, fetch_time_ms |-> 0, cached |-> FALSE,
     error |-> err]

NoResponse == [http |-> 0, url |-> "", status_code |-> -1, content_text |-> "none",
               metadata |-> "none", links |-> "none", screenshot_base64 |-> "none",
               structured_data |-> "none", fetch_time_ms |-> 0, cached |-> FALSE,
               error |-> NoError]

\* HTTPException(status_code=503) of fetch_page.
Http503 == [NoResponse EXCEPT !.http = 503]

Opt(flag, v) == IF flag THEN v ELSE "none"

\* A response that leaves fetch_time_ms at its default.
BuildResponse_NoTime(q, res) ==
    FetchResponse(res.url, res.status_code,
                  IF res.error = NoError THEN Opt(q.extract_text, "html_text")
                  ELSE "none",
                  "none", "none", "none", "none", res.error)

\* _do_fetch lines 65-168: the FetchResponse assembled from a FetchResult,
\* in every branch with the fetch_time_ms of the result.
BuildResponse(q, res) ==
    LET resp ==
            IF res.error # NoError
            THEN FetchResponse(res.url, res.status_code, "none", "none", "none",
                               "none", "none", res.error)
            ELSE IF res.content_type = "application/pdf" /\ res.raw_bytes = "data"
            THEN FetchResponse(res.url, res.status_code,
                               Opt(q.extract_text, "pdf_text"),
                               Opt(q.extract_metadata, "pdf_meta"), "none", "none",
                               "none", NoError)
            ELSE IF res.content_type = "application/json"
            THEN FetchResponse(res.url, res.status_code, Opt(q.extract_text, res.html),
                               "none", "none", "none", "none", NoError)
            ELSE IF res.content_type = "text/plain"
            THEN FetchResponse(res.url, res.status_code, Opt(q.extract_text, res.html),
                               "none", "none", "none", "none", NoError)
            ELSE IF res.content_type \in ImageTypes
            THEN FetchResponse(res.url, res.status_code, "none",
                               Opt(q.extract_metadata, "empty_meta"), "none", "none",
                               "none", NoError)
            ELSE FetchResponse(res.url, res.status_code,
                               Opt(q.extract_text,
                                   IF res.html = "" THEN "" ELSE "html_text"),
                               Opt(q.extract_metadata, "html_meta"),
                               Opt(q.extract_links, "html_links"),
                               Opt(res.screenshot_bytes, "png_base64"), "json_ld",
                               NoError)
    IN  [resp EXCEPT !.fetch_time_ms = res.fetch_time_ms]

\* A cache copy that is the response as it is returned.
CacheCopy_Whole(resp) == resp

\* response.model_copy() with screenshot_base64 = None (lines 172-173); the
\* other branches store the response itself, which has no screenshot.
CacheCopy(resp) == [resp EXCEPT !.screenshot_base64 = "none"]

(***************************************************************************)
(* Text of a response (extractor.py, pdf_extractor.py, routes/fetch.py).   *)
(***************************************************************************)
\* Settings.MAX_CONTENT_LENGTH, and the longest text a site answers with.
MAX_CONTENT_LENGTH == 2
MaxText == 4

\* Texts are strings of up to MaxText characters.
Texts == UNION {[1..n -> {"x"}] : n \in 0..MaxText}

\* The content types whose responses carry text.
TextTypes == HTML_TYPES \cup PDF_TYPES \cup JSON_TYPES \cup TEXT_TYPES

\* ContentExtractor._truncate
truncate(text) ==
    IF Len(text) > MAX_CONTENT_LENGTH THEN SubSeq(text, 1, MAX_CONTENT_LENGTH)
    ELSE text

\* ContentExtractor.extract_text: extracted is what the extraction
\* (trafilatura, or the BeautifulSoup fallback) yields for the page; both
\* paths return through _truncate.
extract_text(html, extracted) ==
    IF html = <<>> THEN <<>> ELSE truncate(extracted)

\* _do_fetch lines 74-168 with extract_text set: the content_text of the
\* response for a result of the given content type; body is result.html
\* and extracted the text the PDF extractor or the HTML extraction yields.
content_text(content_type, body, extracted) ==
    IF content_type \in PDF_TYPES THEN extracted
    ELSE IF content_type \in JSON_TYPES THEN body
    ELSE IF content_type \in TEXT_TYPES THEN body
    ELSE extract_text(body, extracted)

(***************************************************************************)
(* Response cache (cache.py).                                              *)
(***************************************************************************)
\* The value of member f of a JSON document or of a sequence of keyword
\* arguments, dflt when it has no such member.
Member(data, f, dflt) ==
    LET at == {i \in 1..Len(data) : data[i][1] = f}
    IN  IF at = {} THEN dflt ELSE data[CHOOSE i \in at : TRUE][2]

\* The Python values the key is made of: "True", "False" and "None" stand
\* for the booleans and None, any other string for itself.
Py(flag) == IF flag THEN "True" ELSE "False"

\* json.dumps of a value.
JsonValue(v) ==
    CASE v = "True" -> "true"
      [] v = "False" -> "false"
      [] v = "None" -> "null"
      [] OTHER -> "\"" \o v \o "\""

\* The keys of key_data in the order sort_keys puts them.
SortedKeys == <<"extract_links", "extract_metadata", "extract_text", "screenshot",
                "url", "wait_strategy">>

\* filtered (line 28): the parameters that are not None.
filtered(params) == SelectSeq(params, LAMBDA m : m[2] # "None")

\* key_data (line 29).
key_data(url, params) == <<<<"url", url.href>>>> \o filtered(params)

\* A dump that keeps the members in the order they were given.
json_dumps_AsGiven(data) ==
    [i \in 1..Len(data) |-> <<data[i][1], JsonValue(data[i][2])>>]

\* json.dumps(key_data, sort_keys=True) (line 30): the members in the order
\* of their keys, every value as JSON text.
json_dumps(data) ==
    LET names == {data[i][1] : i \in 1..Len(data)}
        order == SelectSeq(SortedKeys, LAMBDA k : k \in names)
    IN  [i \in 1..Len(order) |->
            <<order[i], JsonValue(Member(data, order[i], "None"))>>]

\* The JSON texts that occur as values, numbered.
JsonTexts == <<"false", "true", JsonValue(UrlPage.href), JsonValue(UrlSecret.href),
               JsonValue(UrlInvalid.href)>>

\* The size of a SHA-256 digest in bytes.
DigestSize == 32

\* hashlib.sha256(raw.encode()).digest(), by a stand-in that has no
\* collision on the inputs above: DigestSize bytes, one for every member of
\* raw (its key and its value), then zeros.
sha256(raw) ==
    [i \in 1..DigestSize |->
        IF i <= Len(raw)
        THEN 16 * (CHOOSE k \in 1..Len(SortedKeys) : SortedKeys[k] = raw[i][1])
             + (CHOOSE t \in 1..Len(JsonTexts) : JsonTexts[t] = raw[i][2])
        ELSE 0]

HexDigits == <<"0", "1", "2", "3", "4", "5", "6", "7", "8", "9",
               "a", "b", "c", "d", "e", "f">>

\* The characters of hexdigest(): two digits for every byte.
HexChars(bytes) ==
    [i \in 1..(2 * Len(bytes)) |->
        IF i % 2 = 1
        THEN HexDigits[(bytes[(i + 1) \div 2] \div 16) + 1]
        ELSE HexDigits[(bytes[i \div 2] % 16) + 1]]

RECURSIVE Join(_)
\* "".join(chars).
Join(chars) == IF chars = <<>> THEN "" ELSE Head(chars) \o Join(Tail(chars))

\* make_cache_key (lines 18-31); params are the keyword arguments in the
\* order of the call.
make_cache_key(url, params) ==
    Join(HexChars(sha256(json_dumps(key_data(url, params)))))

\* The key _do_fetch computes for a request (lines 40-46).
CacheKey(q) ==
    make_cache_key(q.url, <<<<"extract_text", Py(q.extract_text)>>,
                            <<"extract_links", Py(q.extract_links)>>,
                            <<"extract_metadata", Py(q.extract_metadata)>>,
                            <<"screenshot", Py(q.screenshot)>>>>)

CacheKeys == {CacheKey(q) : q \in ReqInputs}

\* None: what CacheLayer.get returns when it has no response to return.
NoEntry == [NoResponse EXCEPT !.http = -1]

\* What a CacheLayer call would hand its caller if it raised.
Raised == [NoResponse EXCEPT !.http = -2]

\* The store has no value under a key (redis GET answers None).
NoData == <<>>

\* The fields of FetchResponse that are modelled, in declaration order
\* (schemas.py lines 120-131).
ResponseFields == <<"url", "status_code", "content_text", "metadata", "links",
                    "screenshot_base64", "structured_data", "fetch_time_ms",
                    "cached", "error">>

\* A dump of url, status_code and cached alone.
model_dump_json_Brief(v) ==
    SelectSeq([i \in 1..Len(ResponseFields) |->
                  <<ResponseFields[i], v[ResponseFields[i]]>>],
              LAMBDA m : m[1] \in {"url", "status_code", "cached"})

\* FetchResponse.model_dump_json(): the JSON document, one member for every
\* field, in declaration order.
model_dump_json(v) ==
    [i \in 1..Len(ResponseFields) |-> <<ResponseFields[i], v[ResponseFields[i]]>>]

\* FetchResponse.model_validate_json(data): every field from its member, or
\* the default of the field (schemas.py lines 120-131); the response is
\* answered with status 200.
model_validate_json(data) ==
    [http |-> 200,
     url |-> Member(data, "url", ""),
     status_code |-> Member(data, "status_code", -1),
     content_text |-> Member(data, "content_text", "none"),
     metadata |-> Member(data, "metadata", "none"),
     links |-> Member(data, "links", "none"),
     screenshot_base64 |-> Member(data, "screenshot_base64", "none"),
     structured_data |-> Member(data, "structured_data", "none"),
     fetch_time_ms |-> Member(data, "fetch_time_ms", 0),
     cached |-> Member(data, "cached", FALSE),
     error |-> Member(data, "error", NoError)]

\* The navigations the concurrent clients meet.
PoolNavOutcomes ==
    {nav \in NavOutcomes : \/ nav.kind = "raise" /\ nav.exc = ExcTimeout
                           \/ /\ nav.kind = "response" /\ nav.header = "text/html"
                              /\ nav.status \in {200, 404}}

\* new_page and page.close of the concurrent clients: they succeed, or
\* raise as on a crashed browser.
PoolCallOutcomes == {out \in CallOutcomes : out.exc = ExcCrash}

(***************************************************************************)
(* State.                                                                  *)
(***************************************************************************)
VARIABLES
    started,     \* PageFetcher._context / _connected: the browser is up
    semaphore,   \* PageFetcher._semaphore._value
    page,        \* page[r]: the page request r has open
    pc,          \* pc[r]: the await request r is suspended at
    req,         \* req[r]: the FetchRequest
    attempt,     \* attempt[r]: the loop variable of the retry loop
    result,      \* result[r]: the FetchResult of the current attempt
    response,    \* response[r]: the FetchResponse assembled or returned
    cacheStore,  \* the iris:fetch:<key> entries of the store
    storeUp,     \* the store answers (FALSE: every call on it raises)
    client,      \* CacheLayer._client is set and CACHE_ENABLED is true
    sleepLeft,   \* sleepLeft[r]: seconds left of the backoff sleep of r
    sinceFetch,  \* sinceFetch[o]: seconds since PageFetcher.fetch was last
                 \* entered for origin o, counted up to the minimum delay;
                 \* -1 before the first fetch
    calls,       \* calls[r]: the components request r has called, in order
    navs,        \* navs[r]: the number of new_page calls of request r
    sleeps,      \* sleeps[r]: the backoff sleeps of request r, in order
    redis,          \* DomainRateLimiter._redis is set
    script_sha,     \* DomainRateLimiter._script_sha is set
    granted,        \* granted[d]: the tokens acquire has handed out for
                    \* domain d so far, counted up to BURST
    tokens,         \* tokens[k]: the bucket of key k in the store, in units
                    \* of 1/MIN_DELAY_BETWEEN_REQUESTS token; -1: no such key
    refill_elapsed, \* refill_elapsed[k]: seconds since last_refill of key k,
                    \* counted up to the time that fills an empty bucket
    memory_elapsed, \* memory_elapsed[d]: seconds since _memory_last[d],
                    \* counted up to the minimum delay
    memory_locks,   \* memory_locks[k]: the caller that holds lock k, or 0
    lock_waiters,   \* lock_waiters[k]: the callers queued on lock k
    lpc,            \* lpc[c]: the await caller c of acquire is suspended at
    domain,         \* domain[c]: the domain caller c acquires for
    wait_left,      \* wait_left[c]: seconds left of the sleep of caller c
    arg,            \* the last call of a function on its own: its name and input
    val,            \* what that call returned
    batch,          \* the POST /batch call in progress: its requests, and
                    \* the status and the results it is answered with
    respect_robots, \* RobotsHandler._respect_robots
    robots_redis,   \* RobotsHandler._redis is set
    memory_cache,   \* RobotsHandler._memory_cache: the parser of each origin
    robots_kv,      \* the iris:robots:<origin> entries of the store
    robots_gets,    \* robots_gets[o]: the GETs of o/robots.txt issued so far
    rpc,            \* rpc[c]: the await caller c of can_fetch is suspended at
    rurl,           \* rurl[c]: the url caller c asks about
    rtext,          \* rtext[c]: the robots.txt text caller c has fetched
    rret            \* rret[c]: what can_fetch returned to caller c

fetchVars == <<started, semaphore, page, pc, req, attempt, result, response,
               cacheStore, storeUp, client, sleepLeft, sinceFetch, calls, navs,
               sleeps>>

limiterVars == <<redis, script_sha, granted, tokens, refill_elapsed, memory_elapsed,
                 memory_locks, lock_waiters, lpc, domain, wait_left>>

pureVars == <<arg, val>>

robotsVars == <<respect_robots, robots_redis, memory_cache, robots_kv, robots_gets,
                rpc, rurl, rtext, rret>>

vars == <<fetchVars, limiterVars, pureVars, batch, robotsVars>>

\* PageFetcher.active_pages (lines 166-169).
active_pages == MAX_CONCURRENT_PAGES - semaphore

OpenPages == {r \in Requests : page[r]}

Origins == {Origin(u) : u \in Urls}

\* The domains acquire is called for.
Domains == {u.netloc : u \in Urls \ {UrlInvalid}}

NoDomain == ""

\* One lock for every domain.
LockKey_Shared(d) == "*"

\* The key of the domain's lock in _memory_locks (lines 120-123).
LockKey(d) == d

\* f"iris:ratelimit:{domain}" (line 90).
BucketKey(d) == <<"iris:ratelimit", d>>

LockKeys == {LockKey(d) : d \in Domains}

BucketKeys == {BucketKey(d) : d \in Domains}

\* A full bucket, in units of 1/MIN_DELAY_BETWEEN_REQUESTS token.
BucketCap == BURST * MIN_DELAY_BETWEEN_REQUESTS

\* PageFetcher.__init__, CacheLayer with an empty store, no request yet.
FetchInit ==
    /\ started \in BOOLEAN
    /\ semaphore = MAX_CONCURRENT_PAGES
    /\ page = [r \in Requests |-> FALSE]
    /\ pc = [r \in Requests |-> "idle"]
    /\ req = [r \in Requests |-> NoReq]
    /\ attempt = [r \in Requests |-> 0]
    /\ result = [r \in Requests |-> NoResult]
    /\ response = [r \in Requests |-> NoResponse]
    /\ cacheStore = [k \in CacheKeys |-> NoData]
    /\ storeUp = TRUE
    /\ sleepLeft = [r \in Requests |-> 0]
    /\ sinceFetch = [o \in Origins |-> -1]
    /\ calls = [r \in Requests |-> <<>>]
    /\ navs = [r \in Requests |-> 0]
    /\ sleeps = [r \in Requests |-> <<>>]

(***************************************************************************)
(* robots.txt (robots_handler.py).  A robots.txt text is a sequence of     *)
(* lines, a parser the set of path prefixes it disallows for the agent.    *)
(***************************************************************************)
\* The callers of can_fetch may be refused a further robots.txt request
\* once an origin was asked this often.
MaxRobotsGets == 2

NoText == [present |-> FALSE, lines |-> <<>>]
NoParser == [present |-> FALSE, rules |-> {}]

\* resp.text of a 200 answer of origin/robots.txt.
ServedText(origin) ==
    IF RobotsTxt(origin) = {} THEN <<>>
    ELSE <<[field |-> "User-agent", path |-> <<"*">>]>>
         \o [i \in 1..1 |-> [field |-> "Disallow",
                             path |-> CHOOSE p \in RobotsTxt(origin) : TRUE]]

\* RobotFileParser().parse(lines): the Disallow paths of the text.
parse(lines) ==
    [present |-> TRUE,
     rules |-> {lines[i].path : i \in {j \in 1..Len(lines) : lines[j].field = "Disallow"}}]

\* parser.parse([""]) of line 85: the parser that allows everything.
AllowAll == parse(<<>>)

\* RobotFileParser.can_fetch(user_agent, url)
parser_can_fetch(parser, url) == \A p \in parser.rules : ~IsPrefix(p, url.path)

\* What client.get(robots_url) can do: raise (unreachable host, timeout),
\* or answer with a status.
RobotsResponses ==
    [kind : {"raise"}, status : {0}] \cup [kind : {"response"}, status : {200, 404, 500}]

\* RobotsHandler.__init__ with the defaults and no store.
NoRobots ==
    /\ respect_robots = TRUE
    /\ robots_redis = FALSE
    /\ memory_cache = [o \in Origins |-> NoParser]
    /\ robots_kv = [o \in Origins |-> NoText]
    /\ robots_gets = [o \in Origins |-> 0]
    /\ rpc = [c \in Requests |-> "idle"]
    /\ rurl = [c \in Requests |-> UrlInvalid]
    /\ rtext = [c \in Requests |-> NoText]
    /\ rret = [c \in Requests |-> "none"]

\* can_fetch returns to caller c.
RobotsReturns(c, allowed) ==
    /\ rpc' = [rpc EXCEPT ![c] = "done"]
    /\ rret' = [rret EXCEPT ![c] = IF allowed THEN "True" ELSE "False"]

\* _get_parser goes on to fetch robots.txt (lines 77-80): the GET is issued.
RobotsFetch(c, origin) ==
    /\ robots_gets[origin] < MaxRobotsGets
    /\ rpc' = [rpc EXCEPT ![c] = "http_get"]
    /\ robots_gets' = [robots_gets EXCEPT ![origin] = @ + 1]
    /\ UNCHANGED rret

\* can_fetch(url) up to its first await (lines 44-67, 77-80).
\* A handler that never looks into its in-process cache.
CanFetch_NoMemory(c, url) ==
    /\ rpc[c] = "idle"
    /\ rurl' = [rurl EXCEPT ![c] = url]
    /\ IF ~respect_robots
       THEN RobotsReturns(c, TRUE) /\ UNCHANGED robots_gets
       ELSE IF robots_redis
       THEN /\ rpc' = [rpc EXCEPT ![c] = "redis_get"]
            /\ UNCHANGED <<rret, robots_gets>>
       ELSE RobotsFetch(c, Origin(url))
    /\ UNCHANGED <<respect_robots, robots_redis, memory_cache, robots_kv, rtext>>
    /\ UNCHANGED <<fetchVars, limiterVars, pureVars, batch>>

CanFetch(c, url) ==
    /\ rpc[c] = "idle"
    /\ rurl' = [rurl EXCEPT ![c] = url]
    /\ IF ~respect_robots
       THEN RobotsReturns(c, TRUE) /\ UNCHANGED robots_gets
       ELSE IF memory_cache[Origin(url)].present
       THEN /\ RobotsReturns(c, parser_can_fetch(memory_cache[Origin(url)], url))
            /\ UNCHANGED robots_gets
       ELSE IF robots_redis
       THEN /\ rpc' = [rpc EXCEPT ![c] = "redis_get"]
            /\ UNCHANGED <<rret, robots_gets>>
       ELSE RobotsFetch(c, Origin(url))
    /\ UNCHANGED <<respect_robots, robots_redis, memory_cache, robots_kv, rtext>>
    /\ UNCHANGED <<fetchVars, limiterVars, pureVars, batch>>

\* await self._redis.get(...) is over (lines 66-74): a cached text is
\* parsed, kept in the memory cache and answers the call; without one, and
\* when the read raised, robots.txt is fetched.
RobotsRedisGet(c, ok) ==
    /\ rpc[c] = "redis_get"
    /\ IF ok /\ robots_kv[Origin(rurl[c])].present
       THEN /\ memory_cache' = [memory_cache EXCEPT ![Origin(rurl[c])] =
                                   parse(robots_kv[Origin(rurl[c])].lines)]
            /\ RobotsReturns(c, parser_can_fetch(parse(robots_kv[Origin(rurl[c])].lines),
                                                 rurl[c]))
            /\ UNCHANGED robots_gets
       ELSE RobotsFetch(c, Origin(rurl[c])) /\ UNCHANGED memory_cache
    /\ UNCHANGED <<respect_robots, robots_redis, robots_kv, rurl, rtext>>
    /\ UNCHANGED <<fetchVars, limiterVars, pureVars, batch>>

\* A handler that refuses the url when robots.txt cannot be had.
RobotsHttpGet_FailClosed(c, resp) ==
    /\ rpc[c] = "http_get"
    /\ Origin(rurl[c]) = Origin(UrlInvalid) => resp.kind = "raise"
    /\ IF resp.kind = "raise" \/ resp.status # 200
       THEN /\ RobotsReturns(c, FALSE)
            /\ UNCHANGED <<memory_cache, rtext>>
       ELSE /\ memory_cache' = [memory_cache EXCEPT ![Origin(rurl[c])] =
                                   parse(ServedText(Origin(rurl[c])))]
            /\ IF robots_redis
               THEN /\ rpc' = [rpc EXCEPT ![c] = "redis_setex"]
                    /\ rtext' = [rtext EXCEPT ![c] =
                                    [present |-> TRUE,
                                     lines |-> ServedText(Origin(rurl[c]))]]
                    /\ UNCHANGED rret
               ELSE /\ RobotsReturns(c, parser_can_fetch(
                                            parse(ServedText(Origin(rurl[c]))), rurl[c]))
                    /\ UNCHANGED rtext
    /\ UNCHANGED <<respect_robots, robots_redis, robots_kv, robots_gets, rurl>>
    /\ UNCHANGED <<fetchVars, limiterVars, pureVars, batch>>

\* client.get(robots_url) is over (lines 78-108).  It raised: _get_parser
\* returns None, nothing is kept, and can_fetch answers True.  It answered
\* with another status than 200: the allow-all parser is kept in the memory
\* cache.  It answered 200: the text is parsed and the parser kept in the
\* memory cache, and the text is written to the store when there is one.
\* A url without scheme and host has no robots.txt to get.
RobotsHttpGet(c, resp) ==
    /\ rpc[c] = "http_get"
    /\ Origin(rurl[c]) = Origin(UrlInvalid) => resp.kind = "raise"
    /\ IF resp.kind = "raise"
       THEN /\ RobotsReturns(c, TRUE)
            /\ UNCHANGED <<memory_cache, rtext>>
       ELSE IF resp.status # 200
       THEN /\ memory_cache' = [memory_cache EXCEPT ![Origin(rurl[c])] = AllowAll]
            /\ RobotsReturns(c, parser_can_fetch(AllowAll, rurl[c]))
            /\ UNCHANGED rtext
       ELSE /\ memory_cache' = [memory_cache EXCEPT ![Origin(rurl[c])] =
                                   parse(ServedText(Origin(rurl[c])))]
            /\ IF robots_redis
               THEN /\ rpc' = [rpc EXCEPT ![c] = "redis_setex"]
                    /\ rtext' = [rtext EXCEPT ![c] =
                                    [present |-> TRUE,
                                     lines |-> ServedText(Origin(rurl[c]))]]
                    /\ UNCHANGED rret
               ELSE /\ RobotsReturns(c, parser_can_fetch(
                                            parse(ServedText(Origin(rurl[c]))), rurl[c]))
                    /\ UNCHANGED rtext
    /\ UNCHANGED <<respect_robots, robots_redis, robots_kv, robots_gets, rurl>>
    /\ UNCHANGED <<fetchVars, limiterVars, pureVars, batch>>

\* await self._redis.setex(...) is over (lines 95-103): the text is in the
\* store unless the write raised, and the parser answers the call.
RobotsRedisSetex(c, ok) ==
    /\ rpc[c] = "redis_setex"
    /\ robots_kv' = IF ok THEN [robots_kv EXCEPT ![Origin(rurl[c])] = rtext[c]]
                    ELSE robots_kv
    /\ rtext' = [rtext EXCEPT ![c] = NoText]
    /\ RobotsReturns(c, parser_can_fetch(parse(rtext[c].lines), rurl[c]))
    /\ UNCHANGED <<respect_robots, robots_redis, memory_cache, robots_gets, rurl>>
    /\ UNCHANGED <<fetchVars, limiterVars, pureVars, batch>>

\* The caller has the answer of can_fetch.
CanFetchReturn(c) ==
    /\ rpc[c] = "done"
    /\ rpc' = [rpc EXCEPT ![c] = "idle"]
    /\ rret' = [rret EXCEPT ![c] = "none"]
    /\ UNCHANGED <<respect_robots, robots_redis, memory_cache, robots_kv, robots_gets,
                   rurl, rtext>>
    /\ UNCHANGED <<fetchVars, limiterVars, pureVars, batch>>

\* DomainRateLimiter.__init__ on an empty store, the monotonic clock past
\* the minimum delay.
LimiterState ==
    /\ script_sha = FALSE
    /\ granted = [d \in Domains |-> 0]
    /\ tokens = [k \in BucketKeys |-> -1]
    /\ refill_elapsed = [k \in BucketKeys |-> 0]
    /\ memory_elapsed = [d \in Domains |-> MIN_DELAY_BETWEEN_REQUESTS]
    /\ memory_locks = [k \in LockKeys |-> 0]
    /\ lock_waiters = [k \in LockKeys |-> <<>>]
    /\ lpc = [c \in Requests |-> "idle"]
    /\ domain = [c \in Requests |-> NoDomain]
    /\ wait_left = [c \in Requests |-> 0]

\* No function has been called on its own.
NoCall ==
    /\ arg = [fn |-> "none"]
    /\ val = [fn |-> "none"]

\* BatchFetchRequest.requests holds 1 to 10 requests (schemas.py line 72).
MAX_BATCH == 10

NoBatch == [phase |-> "none", requests |-> <<>>, http |-> 0, results |-> <<>>]

\* The service as main.py builds it, its cache connected: no limiter with a
\* store is wired in.
Init ==
    /\ FetchInit
    /\ client = TRUE
    /\ redis = FALSE
    /\ LimiterState
    /\ NoCall
    /\ batch = NoBatch
    /\ NoRobots

(***************************************************************************)
(* The steps of one request.  What a step does to the request's control    *)
(* state is computed as a record and written by Apply.                     *)
(***************************************************************************)
Apply(r, u) ==
    /\ pc' = [pc EXCEPT ![r] = u.pc]
    /\ attempt' = [attempt EXCEPT ![r] = u.attempt]
    /\ result' = [result EXCEPT ![r] = u.result]
    /\ response' = [response EXCEPT ![r] = u.response]
    /\ sleepLeft' = [sleepLeft EXCEPT ![r] = u.sleepLeft]
    /\ sleeps' = [sleeps EXCEPT ![r] = u.sleeps]
    /\ semaphore' = u.semaphore

\* The request leaves the retry loop, or never entered it: res is the
\* FetchResult it has, resp the response it has so far.
Finished(r, res, resp, sem) ==
    [pc |-> "done", attempt |-> 0, result |-> res, response |-> resp,
     sleepLeft |-> 0, sleeps |-> sleeps[r], semaphore |-> sem]

\* PageFetcher.fetch has returned res to _do_fetch (lines 65-176), which runs
\* up to its next await: an error response and a response that is not to be
\* cached are returned at once, otherwise cache.set is awaited.
\* A pipeline that writes every success to the cache, asked to or not.
Returned_AlwaysSet(r, q, res, sem) ==
    IF res.error = NoError
    THEN [Finished(r, res, BuildResponse(q, res), sem) EXCEPT !.pc = "cache_set"]
    ELSE Finished(r, res, BuildResponse(q, res), sem)

\* A pipeline that writes failures to the cache as well.
Returned_CacheErrors(r, q, res, sem) ==
    IF q.cache
    THEN [Finished(r, res, BuildResponse(q, res), sem) EXCEPT !.pc = "cache_set"]
    ELSE Finished(r, res, BuildResponse(q, res), sem)

Returned(r, q, res, sem) ==
    IF res.error = NoError /\ q.cache
    THEN [Finished(r, res, BuildResponse(q, res), sem) EXCEPT !.pc = "cache_set"]
    ELSE Finished(r, res, BuildResponse(q, res), sem)

\* int((time.monotonic() - start_time) * 1000) when an attempt of request r
\* ends: a time that was measured, kept apart from the 0 that
\* fetch_time_ms has by default; how long the fetch took is not modelled.
elapsed_ms(r) == 1

\* A retry decision that counts one attempt too many.
ShouldRetry_OneMore(res, att) ==
    /\ res.error # NoError
    /\ res.error.retryable
    /\ att <= MAX_RETRIES

\* A retry decision that retries every failed attempt, whatever its error.
ShouldRetry_AnyError(res, att) ==
    /\ res.error # NoError
    /\ att < MAX_RETRIES

\* The retry decision of PageFetcher.fetch after an attempt (lines 289-307).
ShouldRetry(res, att) ==
    /\ res.error # NoError
    /\ res.error.retryable
    /\ att < MAX_RETRIES

\* A backoff that starts at two seconds.
Backoff_FromTwo(att) == Pow2(att)

\* The backoff slept before attempt number att (att > 0), lines 268-277.
Backoff(att) == Pow2(att - 1)

\* The retry loop after an attempt that yielded res: sleep before the next
\* attempt, or leave the semaphore block and return res.
\* A retry loop that gives its slot back for the time of the backoff.
AfterAttempt_Release(r, res) ==
    IF ShouldRetry(res, attempt[r])
    THEN [pc |-> "sleep", attempt |-> attempt[r] + 1, result |-> res,
          response |-> response[r], sleepLeft |-> Backoff(attempt[r] + 1),
          sleeps |-> Append(sleeps[r], Backoff(attempt[r] + 1)),
          semaphore |-> semaphore + 1]
    ELSE Returned(r, req[r], res, semaphore + 1)

AfterAttempt(r, res) ==
    IF ShouldRetry(res, attempt[r])
    THEN [pc |-> "sleep", attempt |-> attempt[r] + 1, result |-> res,
          response |-> response[r], sleepLeft |-> Backoff(attempt[r] + 1),
          sleeps |-> Append(sleeps[r], Backoff(attempt[r] + 1)),
          semaphore |-> semaphore]
    ELSE Returned(r, req[r], res, semaphore + 1)

\* The FetchResult of a fetch that fails before its first attempt.
FailFast(q, t) ==
    FetchResult(q.url, 0, "", FALSE, FetchError(t, FALSE, 0), "text/html", "none")

\* A fetch that goes on to its first attempt whether or not a slot is free.
EnterFetch_NoWait(r, q) ==
    IF ~started
    THEN Returned(r, q, FailFast(q, "browser_error"), semaphore)
    ELSE IF q.url.scheme = "" \/ q.url.netloc = ""
    THEN Returned(r, q, FailFast(q, "invalid_url"), semaphore)
    ELSE [pc |-> "new_page", attempt |-> 0, result |-> NoResult,
          response |-> NoResponse, sleepLeft |-> 0, sleeps |-> sleeps[r],
          semaphore |-> semaphore - 1]

\* PageFetcher.fetch up to its first await (lines 228-264).
EnterFetch(r, q) ==
    IF ~started
    THEN Returned(r, q, FailFast(q, "browser_error"), semaphore)
    ELSE IF q.url.scheme = "" \/ q.url.netloc = ""
    THEN Returned(r, q, FailFast(q, "invalid_url"), semaphore)
    ELSE [pc |-> IF semaphore > 0 THEN "new_page" ELSE "wait_slot",
          attempt |-> 0, result |-> NoResult, response |-> NoResponse,
          sleepLeft |-> 0,
          sleeps |-> sleeps[r],
          semaphore |-> IF semaphore > 0 THEN semaphore - 1 ELSE semaphore]

\* _do_fetch calls fetcher.fetch (line 55).
CallFetch(r, q) ==
    /\ Apply(r, EnterFetch(r, q))
    /\ calls' = [calls EXCEPT ![r] = Append(@, "fetcher.fetch")]
    /\ sinceFetch' = [sinceFetch EXCEPT ![Origin(q.url)] = 0]

\* _do_fetch up to its first await (lines 39-55): the cache lookup, or the
\* fetch when the request bypasses the cache.
DoFetch(r, q) ==
    IF q.cache
    THEN /\ Apply(r, [Finished(r, NoResult, NoResponse, semaphore) EXCEPT
                         !.pc = "cache_get"])
         /\ calls' = [calls EXCEPT ![r] = Append(@, "cache.get")]
         /\ UNCHANGED sinceFetch
    ELSE CallFetch(r, q)

\* A route that calls _do_fetch whether or not the browser is connected.
Begin_NoGate(r, q) ==
    /\ pc[r] = "idle"
    /\ req' = [req EXCEPT ![r] = q]
    /\ DoFetch(r, q)
    /\ UNCHANGED <<started, page, cacheStore, storeUp, navs>>
    /\ UNCHANGED <<client, limiterVars, pureVars, batch, robotsVars>>

\* POST /fetch (fetch_page): 503 when the browser is not connected, else
\* _do_fetch up to its first await.
Begin(r, q) ==
    /\ pc[r] = "idle"
    /\ req' = [req EXCEPT ![r] = q]
    /\ IF ~started
       THEN /\ Apply(r, Finished(r, NoResult, Http503, semaphore))
            /\ UNCHANGED <<sinceFetch, calls>>
       ELSE DoFetch(r, q)
    /\ UNCHANGED <<started, page, cacheStore, storeUp, navs>>
    /\ UNCHANGED <<client, limiterVars, pureVars, batch, robotsVars>>

\* A cache lookup that never finds anything.
CacheLayer_get_Miss(key) == NoEntry

\* The response the store holds under a key: the GET and the parse of
\* CacheLayer.get (lines 85-90), None when there is no value.
Stored(key) ==
    IF cacheStore[key] = NoData THEN NoEntry ELSE model_validate_json(cacheStore[key])

\* A lookup that lets the exception of the store through.
CacheLayer_get_Propagates(key) ==
    IF ~client THEN NoEntry
    ELSE IF ~storeUp THEN Raised
    ELSE Stored(key)

\* CacheLayer.get (lines 75-94): None without a client or with the cache
\* disabled, None when the store raises or has no value under the key,
\* else the response parsed from the value.
CacheLayer_get(key) ==
    IF ~client THEN NoEntry
    ELSE IF ~storeUp THEN NoEntry
    ELSE Stored(key)

\* cache.get has answered (lines 49-52): a hit is returned with cached set,
\* a miss goes on to PageFetcher.fetch; an exception of cache.get would
\* leave _do_fetch.
CacheGet(r) ==
    /\ pc[r] = "cache_get"
    /\ LET cached == CacheLayer_get(CacheKey(req[r]))
       IN  IF cached = Raised
           THEN /\ Apply(r, [Finished(r, NoResult, NoResponse, semaphore) EXCEPT
                                !.pc = "raised"])
                /\ UNCHANGED <<sinceFetch, calls>>
           ELSE IF cached # NoEntry
           THEN /\ Apply(r, Finished(r, NoResult, [cached EXCEPT !.cached = TRUE],
                                     semaphore))
                /\ UNCHANGED <<sinceFetch, calls>>
           ELSE CallFetch(r, req[r])
    /\ UNCHANGED <<started, page, req, cacheStore, storeUp, navs>>
    /\ UNCHANGED <<client, limiterVars, pureVars, batch, robotsVars>>

\* async with self._semaphore: a waiting request gets a slot.
AcquireSlot(r) ==
    /\ pc[r] = "wait_slot"
    /\ semaphore > 0
    /\ semaphore' = semaphore - 1
    /\ pc' = [pc EXCEPT ![r] = "new_page"]
    /\ UNCHANGED <<started, page, req, attempt, result, response, cacheStore,
                   storeUp, sleepLeft, sinceFetch, calls, navs, sleeps>>
    /\ UNCHANGED <<client, limiterVars, pureVars, batch, robotsVars>>

\* self._context.new_page() (line 330): the page, or an exception that the
\* attempt turns into its error (no page to close).
NewPage(r, out) ==
    /\ pc[r] = "new_page"
    /\ navs' = [navs EXCEPT ![r] = @ + 1]
    /\ IF out.ok
       THEN /\ page' = [page EXCEPT ![r] = TRUE]
            /\ pc' = [pc EXCEPT ![r] = "navigate"]
            /\ UNCHANGED <<semaphore, attempt, result, response, sleepLeft, sleeps>>
       ELSE /\ Apply(r, AfterAttempt(r,
                    [FetchResult(req[r].url, 0, "", FALSE, classify_error(out.exc),
                                 "text/html", "none")
                        EXCEPT !.fetch_time_ms = elapsed_ms(r)]))
            /\ UNCHANGED page
    /\ UNCHANGED <<started, req, cacheStore, storeUp, sinceFetch, calls>>
    /\ UNCHANGED <<client, limiterVars, pureVars, batch, robotsVars>>

\* page.goto and what follows on the page (lines 336-479): the attempt's
\* result is ready, the page is still to be closed.
Navigate(r, nav) ==
    /\ pc[r] = "navigate"
    /\ result' = [result EXCEPT ![r] = fetch_once(req[r].url, req[r].screenshot, nav,
                                                  elapsed_ms(r))]
    /\ pc' = [pc EXCEPT ![r] = "close"]
    /\ UNCHANGED <<started, semaphore, page, req, attempt, response, cacheStore,
                   storeUp, sleepLeft, sinceFetch, calls, navs, sleeps>>
    /\ UNCHANGED <<client, limiterVars, pureVars, batch, robotsVars>>

\* A close that is skipped when the attempt has an error to return.
ClosePage_OnSuccess(r, out) ==
    /\ pc[r] \in {"close", "cancel_close"}
    /\ page' = [page EXCEPT ![r] = (pc[r] = "close" /\ result[r].error # NoError)]
    /\ IF pc[r] = "cancel_close"
       THEN Apply(r, [Finished(r, NoResult, NoResponse, semaphore + 1) EXCEPT
                         !.pc = "cancelled"])
       ELSE Apply(r, AfterAttempt(r, result[r]))
    /\ UNCHANGED <<started, req, cacheStore, storeUp, sinceFetch, calls, navs>>
    /\ UNCHANGED <<client, limiterVars, pureVars, batch, robotsVars>>

\* finally: page.close() (lines 480-482), then the retry decision, or the
\* CancelledError going on when the attempt was cancelled.  When close
\* raises, the exception leaves fetch through the semaphore block and
\* _do_fetch; the page handle is gone either way.
ClosePage(r, out) ==
    /\ pc[r] \in {"close", "cancel_close"}
    /\ page' = [page EXCEPT ![r] = FALSE]
    /\ IF ~out.ok
       THEN Apply(r, [Finished(r, NoResult, NoResponse, semaphore + 1) EXCEPT
                         !.pc = "raised"])
       ELSE IF pc[r] = "cancel_close"
       THEN Apply(r, [Finished(r, NoResult, NoResponse, semaphore + 1) EXCEPT
                         !.pc = "cancelled"])
       ELSE Apply(r, AfterAttempt(r, result[r]))
    /\ UNCHANGED <<started, req, cacheStore, storeUp, sinceFetch, calls, navs>>
    /\ UNCHANGED <<client, limiterVars, pureVars, batch, robotsVars>>

\* A cancellation that leaves the semaphore block without giving the slot
\* back.
Cancel_KeepSlot(r) ==
    /\ pc[r] \in {"wait_slot", "new_page", "navigate", "sleep"}
    /\ IF pc[r] = "navigate"
       THEN Apply(r, [Finished(r, NoResult, NoResponse, semaphore) EXCEPT
                         !.pc = "cancel_close"])
       ELSE Apply(r, [Finished(r, NoResult, NoResponse, semaphore) EXCEPT
                         !.pc = "cancelled"])
    /\ UNCHANGED <<started, page, req, cacheStore, storeUp, sinceFetch, calls, navs>>
    /\ UNCHANGED <<client, limiterVars, pureVars, batch, robotsVars>>

\* The request's task is cancelled while PageFetcher.fetch is suspended:
\* waiting for the slot (line 264), in new_page (330), in the navigation or
\* the wait that follows it (336-451), or in the backoff sleep (277).
\* CancelledError is no Exception: it passes the except clause of
\* _fetch_once, the finally block closes the page there is, and the
\* semaphore block gives the slot back.
Cancel(r) ==
    /\ pc[r] \in {"wait_slot", "new_page", "navigate", "sleep"}
    /\ IF pc[r] = "navigate"
       THEN Apply(r, [Finished(r, NoResult, NoResponse, semaphore) EXCEPT
                         !.pc = "cancel_close"])
       ELSE Apply(r, [Finished(r, NoResult, NoResponse,
                               IF pc[r] = "wait_slot" THEN semaphore
                               ELSE semaphore + 1) EXCEPT !.pc = "cancelled"])
    /\ UNCHANGED <<started, page, req, cacheStore, storeUp, sinceFetch, calls, navs>>
    /\ UNCHANGED <<client, limiterVars, pureVars, batch, robotsVars>>

\* asyncio.sleep(backoff) is over (line 277), not before its time; the
\* result of the attempt before is overwritten before it is read again.
BackoffDone(r) ==
    /\ pc[r] = "sleep"
    /\ sleepLeft[r] = 0
    /\ pc' = [pc EXCEPT ![r] = "new_page"]
    /\ result' = [result EXCEPT ![r] = NoResult]
    /\ UNCHANGED <<started, semaphore, page, req, attempt, response,
                   cacheStore, storeUp, sleepLeft, sinceFetch, calls, navs, sleeps>>
    /\ UNCHANGED <<client, limiterVars, pureVars, batch, robotsVars>>

\* CacheLayer.set (lines 96-115): the store afterwards; a no-op without a
\* client, with the cache disabled, or when the store raises.
CacheLayer_set(key, value) ==
    IF client /\ storeUp
    THEN [cacheStore EXCEPT ![key] = model_dump_json(value)]
    ELSE cacheStore

\* await cache.set(cache_key, ...) and the return of the response.
CacheSet(r) ==
    /\ pc[r] = "cache_set"
    /\ cacheStore' = CacheLayer_set(CacheKey(req[r]), CacheCopy(response[r]))
    /\ pc' = [pc EXCEPT ![r] = "done"]
    /\ calls' = [calls EXCEPT ![r] = Append(@, "cache.set")]
    /\ UNCHANGED <<started, semaphore, page, req, attempt, result, response,
                   storeUp, sleepLeft, sinceFetch, navs, sleeps>>
    /\ UNCHANGED <<client, limiterVars, pureVars, batch, robotsVars>>

\* The client has its answer (a response, or the exception): the request
\* is gone and the client may send another.
Deliver(r) ==
    /\ pc[r] \in {"done", "raised", "cancelled"}
    /\ pc' = [pc EXCEPT ![r] = "idle"]
    /\ req' = [req EXCEPT ![r] = NoReq]
    /\ response' = [response EXCEPT ![r] = NoResponse]
    /\ result' = [result EXCEPT ![r] = NoResult]
    /\ calls' = [calls EXCEPT ![r] = <<>>]
    /\ navs' = [navs EXCEPT ![r] = 0]
    /\ sleeps' = [sleeps EXCEPT ![r] = <<>>]
    /\ UNCHANGED <<started, semaphore, page, attempt, cacheStore, storeUp,
                   sleepLeft, sinceFetch>>
    /\ UNCHANGED <<client, limiterVars, pureVars, batch, robotsVars>>

\* The store becomes unreachable.
StoreDown ==
    /\ storeUp
    /\ storeUp' = FALSE
    /\ UNCHANGED <<started, semaphore, page, pc, req, attempt, result, response,
                   cacheStore, sleepLeft, sinceFetch, calls, navs, sleeps>>
    /\ UNCHANGED <<client, limiterVars, pureVars, batch, robotsVars>>

\* One second passes.
Tick ==
    /\ sleepLeft' = [r \in Requests |-> Max(0, sleepLeft[r] - 1)]
    /\ sinceFetch' = [o \in Origins |->
                        IF sinceFetch[o] \in 0..(MIN_DELAY_BETWEEN_REQUESTS - 1)
                        THEN sinceFetch[o] + 1 ELSE sinceFetch[o]]
    /\ wait_left' = [c \in Requests |-> Max(0, wait_left[c] - 1)]
    /\ memory_elapsed' = [d \in Domains |->
                            IF memory_elapsed[d] < MIN_DELAY_BETWEEN_REQUESTS
                            THEN memory_elapsed[d] + 1 ELSE memory_elapsed[d]]
    /\ refill_elapsed' = [k \in BucketKeys |->
                            IF tokens[k] # -1 /\ refill_elapsed[k] < BucketCap
                            THEN refill_elapsed[k] + 1 ELSE refill_elapsed[k]]
    /\ UNCHANGED <<started, semaphore, page, pc, req, attempt, result, response,
                   cacheStore, storeUp, calls, navs, sleeps>>
    /\ UNCHANGED <<redis, script_sha, granted, tokens, memory_locks, lock_waiters,
                   lpc, domain>>
    /\ UNCHANGED <<client, pureVars, batch, robotsVars>>

(***************************************************************************)
(* DomainRateLimiter (rate_limiter.py).  A caller of acquire is one of the *)
(* requests.                                                               *)
(***************************************************************************)
\* What a step does to its caller and to the in-memory state is computed as
\* a record and written by LApply.
LApply(c, u) ==
    /\ lpc' = [lpc EXCEPT ![c] = u.lpc]
    /\ wait_left' = [wait_left EXCEPT ![c] = u.wait_left]
    /\ memory_locks' = u.memory_locks
    /\ lock_waiters' = u.lock_waiters
    /\ memory_elapsed' = u.memory_elapsed

\* A body that stamps and returns without looking at the last stamp.
WithLock_NoSleep(c, d, waiters) ==
    [lpc |-> "acquired", wait_left |-> 0,
     memory_locks |-> [memory_locks EXCEPT ![LockKey(d)] = 0],
     lock_waiters |-> waiters,
     memory_elapsed |-> [memory_elapsed EXCEPT ![d] = 0]]

\* The body of async with lock (lines 125-136), the lock just taken: sleep
\* for what is missing of the minimum delay, holding the lock, or stamp
\* _memory_last, release the lock and return True.
WithLock(c, d, waiters) ==
    IF memory_elapsed[d] < MIN_DELAY_BETWEEN_REQUESTS
    THEN [lpc |-> "memory_sleep",
          wait_left |-> MIN_DELAY_BETWEEN_REQUESTS - memory_elapsed[d],
          memory_locks |-> [memory_locks EXCEPT ![LockKey(d)] = c],
          lock_waiters |-> waiters,
          memory_elapsed |-> memory_elapsed]
    ELSE [lpc |-> "acquired", wait_left |-> 0,
          memory_locks |-> [memory_locks EXCEPT ![LockKey(d)] = 0],
          lock_waiters |-> waiters,
          memory_elapsed |-> [memory_elapsed EXCEPT ![d] = 0]]

\* _acquire_memory up to its first await (lines 118-124): asyncio.Lock is
\* taken at once when it is free and nobody queues for it.
acquire_memory(c, d) ==
    IF memory_locks[LockKey(d)] = 0 /\ lock_waiters[LockKey(d)] = <<>>
    THEN WithLock(c, d, lock_waiters)
    ELSE [lpc |-> "wait_lock", wait_left |-> 0, memory_locks |-> memory_locks,
          lock_waiters |-> [lock_waiters EXCEPT ![LockKey(d)] = Append(@, c)],
          memory_elapsed |-> memory_elapsed]

\* acquire returns True to caller c when the step ends with the token: one
\* more token was handed out for domain d.
Grants(c, d) ==
    granted' = [granted EXCEPT ![d] = IF lpc'[c] = "acquired" /\ @ < BURST
                                      THEN @ + 1 ELSE @]

\* acquire (lines 74-98) up to its first await: the store's bucket when
\* there is a store, the script loaded first when it was not yet, else the
\* in-memory limiter.
Acquire(c, d) ==
    /\ lpc[c] = "idle"
    /\ domain' = [domain EXCEPT ![c] = d]
    /\ IF redis
       THEN /\ lpc' = [lpc EXCEPT ![c] = IF script_sha THEN "evalsha"
                                        ELSE "script_load"]
            /\ UNCHANGED <<wait_left, memory_locks, lock_waiters, memory_elapsed>>
       ELSE LApply(c, acquire_memory(c, d))
    /\ Grants(c, d)
    /\ UNCHANGED <<redis, script_sha, tokens, refill_elapsed>>
    /\ UNCHANGED <<fetchVars, pureVars, batch, robotsVars>>

\* _TOKEN_BUCKET_SCRIPT (lines 17-49) on the bucket with t units that was
\* refilled e seconds ago: the units left, and the seconds to wait (0 when
\* a token was taken).
TokenBucket(t, e) ==
    LET had == IF t = -1 THEN BucketCap ELSE t
        elapsed == IF t = -1 THEN 0 ELSE e
        filled == IF had + elapsed > BucketCap THEN BucketCap ELSE had + elapsed
    IN  IF filled >= MIN_DELAY_BETWEEN_REQUESTS
        THEN [tokens |-> filled - MIN_DELAY_BETWEEN_REQUESTS, wait |-> 0]
        ELSE [tokens |-> filled, wait |-> MIN_DELAY_BETWEEN_REQUESTS - filled]

\* A script load whose exception reaches the caller of acquire.
ScriptLoad_Raises(c, ok) ==
    /\ lpc[c] = "script_load"
    /\ script_sha' = (script_sha \/ ok)
    /\ lpc' = [lpc EXCEPT ![c] = IF ok THEN "evalsha" ELSE "raised"]
    /\ UNCHANGED <<redis, granted, tokens, refill_elapsed, memory_elapsed, memory_locks,
                   lock_waiters, domain, wait_left>>
    /\ UNCHANGED <<fetchVars, pureVars, batch, robotsVars>>

\* script_load has answered (lines 93-96, 114-116): the sha is kept and the
\* script evaluated next, or the in-memory limiter when the store raised.
ScriptLoad(c, ok) ==
    /\ lpc[c] = "script_load"
    /\ IF ok
       THEN /\ script_sha' = TRUE
            /\ lpc' = [lpc EXCEPT ![c] = "evalsha"]
            /\ UNCHANGED <<wait_left, memory_locks, lock_waiters, memory_elapsed>>
       ELSE /\ LApply(c, acquire_memory(c, domain[c]))
            /\ UNCHANGED script_sha
    /\ Grants(c, domain[c])
    /\ UNCHANGED <<redis, tokens, refill_elapsed, domain>>
    /\ UNCHANGED <<fetchVars, pureVars, batch, robotsVars>>

\* evalsha has answered (lines 92-116): True on a token, a sleep of the
\* wait the script names before the retry, and the in-memory limiter when
\* the store raised.
Evalsha(c, ok) ==
    /\ lpc[c] = "evalsha"
    /\ IF ok
       THEN LET k == BucketKey(domain[c])
                b == TokenBucket(tokens[k], refill_elapsed[k])
            IN  /\ tokens' = [tokens EXCEPT ![k] = b.tokens]
                /\ refill_elapsed' = [refill_elapsed EXCEPT ![k] = 0]
                /\ lpc' = [lpc EXCEPT ![c] = IF b.wait = 0 THEN "acquired"
                                             ELSE "redis_sleep"]
                /\ wait_left' = [wait_left EXCEPT ![c] = b.wait]
                /\ UNCHANGED <<memory_locks, lock_waiters, memory_elapsed>>
       ELSE /\ LApply(c, acquire_memory(c, domain[c]))
            /\ UNCHANGED <<tokens, refill_elapsed>>
    /\ Grants(c, domain[c])
    /\ UNCHANGED <<redis, script_sha, domain>>
    /\ UNCHANGED <<fetchVars, pureVars, batch, robotsVars>>

\* asyncio.sleep(wait_ms / 1000) is over (line 111): _acquire_redis again.
RedisRetry(c) ==
    /\ lpc[c] = "redis_sleep"
    /\ wait_left[c] = 0
    /\ lpc' = [lpc EXCEPT ![c] = "evalsha"]
    /\ UNCHANGED <<redis, script_sha, granted, tokens, refill_elapsed, memory_elapsed,
                   memory_locks, lock_waiters, domain, wait_left>>
    /\ UNCHANGED <<fetchVars, pureVars, batch, robotsVars>>

\* The lock is free and the caller is the first of its queue.
LockGranted(c) ==
    /\ lpc[c] = "wait_lock"
    /\ memory_locks[LockKey(domain[c])] = 0
    /\ Head(lock_waiters[LockKey(domain[c])]) = c
    /\ LApply(c, WithLock(c, domain[c],
                          [lock_waiters EXCEPT ![LockKey(domain[c])] = Tail(@)]))
    /\ Grants(c, domain[c])
    /\ UNCHANGED <<redis, script_sha, tokens, refill_elapsed, domain>>
    /\ UNCHANGED <<fetchVars, pureVars, batch, robotsVars>>

\* asyncio.sleep(wait_time) is over (lines 132-136): stamp _memory_last,
\* leave the lock, return True.
MemoryWake(c) ==
    /\ lpc[c] = "memory_sleep"
    /\ wait_left[c] = 0
    /\ lpc' = [lpc EXCEPT ![c] = "acquired"]
    /\ memory_elapsed' = [memory_elapsed EXCEPT ![domain[c]] = 0]
    /\ memory_locks' = [memory_locks EXCEPT ![LockKey(domain[c])] = 0]
    /\ Grants(c, domain[c])
    /\ UNCHANGED <<redis, script_sha, tokens, refill_elapsed, lock_waiters, domain,
                   wait_left>>
    /\ UNCHANGED <<fetchVars, pureVars, batch, robotsVars>>

\* The caller has its token and may call acquire again.
AcquireReturn(c) ==
    /\ lpc[c] = "acquired"
    /\ lpc' = [lpc EXCEPT ![c] = "idle"]
    /\ domain' = [domain EXCEPT ![c] = NoDomain]
    /\ UNCHANGED <<redis, script_sha, granted, tokens, refill_elapsed, memory_elapsed,
                   memory_locks, lock_waiters, wait_left>>
    /\ UNCHANGED <<fetchVars, pureVars, batch, robotsVars>>

\* Concurrent clients (single requests and the tasks of a batch).
Next ==
    \/ \E r \in Requests, q \in PoolInputs : Begin(r, q)
    \/ \E r \in Requests : CacheGet(r)
    \/ \E r \in Requests : AcquireSlot(r)
    \/ \E r \in Requests, out \in PoolCallOutcomes : NewPage(r, out)
    \/ \E r \in Requests, nav \in PoolNavOutcomes : Navigate(r, nav)
    \/ \E r \in Requests, out \in PoolCallOutcomes : ClosePage(r, out)
    \/ \E r \in Requests : BackoffDone(r)
    \/ \E r \in Requests : Cancel(r)
    \/ \E r \in Requests : CacheSet(r)
    \/ \E r \in Requests : Deliver(r)
    \/ StoreDown
    \/ Tick

Spec == Init /\ [][Next]_vars

\* One client that awaits each answer before it sends the next request; it
\* never has to wait for a page slot.
Client == CHOOSE r \in Requests : \A r2 \in Requests : r <= r2

SeqNext ==
    \/ \E q \in ReqInputs : Begin(Client, q)
    \/ CacheGet(Client)
    \/ \E out \in CallOutcomes : NewPage(Client, out)
    \/ \E nav \in NavOutcomes : Navigate(Client, nav)
    \/ \E out \in CallOutcomes : ClosePage(Client, out)
    \/ BackoffDone(Client)
    \/ CacheSet(Client)
    \/ Deliver(Client)
    \/ StoreDown
    \/ Tick

SpecSeq == Init /\ [][SeqNext]_vars

\* A limiter on its own, as the limiter tests build it: with a store or
\* without one.
LimiterInit ==
    /\ FetchInit
    /\ client = TRUE
    /\ redis \in BOOLEAN
    /\ LimiterState
    /\ NoCall
    /\ batch = NoBatch
    /\ NoRobots

LimiterNext ==
    \/ \E c \in Requests, d \in Domains : Acquire(c, d)
    \/ \E c \in Requests, ok \in BOOLEAN : ScriptLoad(c, ok)
    \/ \E c \in Requests, ok \in BOOLEAN : Evalsha(c, ok)
    \/ \E c \in Requests : RedisRetry(c)
    \/ \E c \in Requests : LockGranted(c)
    \/ \E c \in Requests : MemoryWake(c)
    \/ \E c \in Requests : AcquireReturn(c)
    \/ Tick

SpecLimiter == LimiterInit /\ [][LimiterNext]_vars

\* The caller's task is cancelled at one of the awaits of acquire:
\* CancelledError is no Exception, so the except clause of _acquire_redis
\* lets it pass; async with lock releases a lock that is held without the
\* stamp being written, and a caller queueing for the lock leaves the queue.
LimiterCancel(c) ==
    /\ lpc[c] \in {"script_load", "evalsha", "redis_sleep", "wait_lock", "memory_sleep"}
    /\ lpc' = [lpc EXCEPT ![c] = "idle"]
    /\ domain' = [domain EXCEPT ![c] = NoDomain]
    /\ wait_left' = [wait_left EXCEPT ![c] = 0]
    /\ memory_locks' = [k \in LockKeys |->
                           IF memory_locks[k] = c THEN 0 ELSE memory_locks[k]]
    /\ lock_waiters' = [k \in LockKeys |->
                           SelectSeq(lock_waiters[k], LAMBDA w : w # c)]
    /\ UNCHANGED <<redis, script_sha, granted, tokens, refill_elapsed, memory_elapsed>>
    /\ UNCHANGED <<fetchVars, pureVars, batch, robotsVars>>

\* The steps of caller c that the event loop takes as soon as what the
\* caller awaits is there: the answers of the store, the end of a sleep,
\* the lock handed over, the return.
CallerStep(c) ==
    \/ \E ok \in BOOLEAN : ScriptLoad(c, ok)
    \/ \E ok \in BOOLEAN : Evalsha(c, ok)
    \/ RedisRetry(c)
    \/ LockGranted(c)
    \/ MemoryWake(c)
    \/ AcquireReturn(c)

\* A limiter whose callers may be cancelled, under an event loop that runs
\* every ready caller and a clock that advances.
FairNext ==
    \/ LimiterNext
    \/ \E c \in Requests : LimiterCancel(c)

SpecLimiterFair ==
    /\ LimiterInit
    /\ [][FairNext]_vars
    /\ WF_vars(Tick)
    /\ \A c \in Requests : WF_vars(CallerStep(c))

(***************************************************************************)
(* POST /batch (batch_fetch).  Task number i of a batch runs as request i. *)
(***************************************************************************)
\* The requests of a batch: two URLs, past the cache.
TaskInputs ==
    {q \in ReqInputs : q.url \in {UrlPage, UrlSecret} /\ ~q.cache /\ ~q.screenshot}

RECURSIVE SeqsUpTo(_, _)
\* The sequences over S of length at most n.
SeqsUpTo(S, n) ==
    IF n = 0 THEN {<<>>}
    ELSE LET shorter == SeqsUpTo(S, n - 1)
         IN  shorter \cup {Append(qs, q) : qs \in shorter, q \in S}

\* The bodies POST /batch is called with: up to NumRequests requests, and
\* one list that is longer than BatchFetchRequest allows.
BatchInputs ==
    SeqsUpTo(TaskInputs, NumRequests)
    \cup {[i \in 1..(MAX_BATCH + 1) |-> CHOOSE q \in TaskInputs : q.url = UrlPage]}

\* A validation that lets the empty list pass.
BatchValid_NoLower(qs) == Len(qs) <= MAX_BATCH

\* Field(min_length=1, max_length=10) of BatchFetchRequest.requests.
BatchValid(qs) == Len(qs) >= 1 /\ Len(qs) <= MAX_BATCH

\* POST /batch arrives: 422 from the validation of the body, 503 when the
\* browser is not connected, else one _do_fetch task per request (lines
\* 199-204); the tasks start when the handler awaits gather.
BatchBegin(qs) ==
    /\ batch.phase = "none"
    /\ \A r \in Requests : pc[r] = "idle"
    /\ IF ~BatchValid(qs)
       THEN /\ batch' = [phase |-> "answered", requests |-> qs, http |-> 422,
                         results |-> <<>>]
            /\ pc' = pc
       ELSE IF ~started
       THEN /\ batch' = [phase |-> "answered", requests |-> qs, http |-> 503,
                         results |-> <<>>]
            /\ pc' = pc
       ELSE /\ batch' = [phase |-> "running", requests |-> qs, http |-> 0,
                         results |-> <<>>]
            /\ pc' = [r \in Requests |-> IF r <= Len(qs) THEN "task" ELSE pc[r]]
    /\ UNCHANGED <<started, semaphore, page, req, attempt, result, response,
                   cacheStore, storeUp, sleepLeft, sinceFetch, calls, navs, sleeps>>
    /\ UNCHANGED <<client, limiterVars, pureVars, robotsVars>>

\* A task of the batch starts: _do_fetch up to its first await.
TaskStart(r) ==
    /\ pc[r] = "task"
    /\ req' = [req EXCEPT ![r] = batch.requests[r]]
    /\ DoFetch(r, batch.requests[r])
    /\ UNCHANGED <<started, page, cacheStore, storeUp, navs>>
    /\ UNCHANGED <<client, limiterVars, pureVars, batch, robotsVars>>

\* The result list that leaves out the tasks that raised.
BatchResults_DropRaised(n) ==
    LET RECURSIVE Collect(_)
        Collect(i) == IF i = 0 THEN <<>>
                      ELSE IF pc[i] = "done" THEN Append(Collect(i - 1), response[i])
                      ELSE Collect(i - 1)
    IN  Collect(n)

\* Lines 206-223: the results of gather(return_exceptions=True) in the
\* order of the requests, an exception turned into a browser_error response.
BatchResults(n) ==
    [i \in 1..n |->
        IF pc[i] = "done" THEN response[i]
        ELSE FetchResponse(batch.requests[i].url.href, 0, "none", "none", "none",
                           "none", "none", FetchError("browser_error", FALSE, 0))]

\* gather has every task's outcome: the batch is answered.
BatchEnd ==
    /\ batch.phase = "running"
    /\ \A i \in 1..Len(batch.requests) : pc[i] \in {"done", "raised", "cancelled"}
    /\ batch' = [batch EXCEPT !.phase = "answered", !.http = 200,
                              !.results = BatchResults(Len(batch.requests))]
    /\ UNCHANGED <<fetchVars, limiterVars, pureVars, robotsVars>>

\* The client has the answer of the batch and may send another: the tasks
\* are gone.
BatchReturn ==
    /\ batch.phase = "answered"
    /\ batch' = NoBatch
    /\ pc' = [r \in Requests |-> "idle"]
    /\ req' = [r \in Requests |-> NoReq]
    /\ response' = [r \in Requests |-> NoResponse]
    /\ result' = [r \in Requests |-> NoResult]
    /\ calls' = [r \in Requests |-> <<>>]
    /\ navs' = [r \in Requests |-> 0]
    /\ sleeps' = [r \in Requests |-> <<>>]
    /\ UNCHANGED <<started, semaphore, page, attempt, cacheStore, storeUp,
                   sleepLeft, sinceFetch>>
    /\ UNCHANGED <<client, limiterVars, pureVars, robotsVars>>

BatchNext ==
    \/ \E qs \in BatchInputs : BatchBegin(qs)
    \/ \E r \in Requests : TaskStart(r)
    \/ \E r \in Requests : AcquireSlot(r)
    \/ \E r \in Requests, out \in PoolCallOutcomes : NewPage(r, out)
    \/ \E r \in Requests, nav \in PoolNavOutcomes : Navigate(r, nav)
    \/ \E r \in Requests, out \in PoolCallOutcomes : ClosePage(r, out)
    \/ \E r \in Requests : BackoffDone(r)
    \/ \E r \in Requests : Cancel(r)
    \/ BatchEnd
    \/ BatchReturn
    \/ Tick

SpecBatch == Init /\ [][BatchNext]_vars

\* The requests POST /fetch is called with beside the batches: the batch
\* requests, and the page through the cache.
RouteInputs ==
    TaskInputs \cup {q \in PoolInputs : q.wait_strategy = "load" /\ q.url = UrlPage}

\* POST /fetch arrives while no batch is in the service.
FetchPage(r, q) ==
    /\ batch.phase = "none"
    /\ Begin(r, q)

\* The client of POST /fetch has its answer.
FetchReturn(r) ==
    /\ batch.phase = "none"
    /\ Deliver(r)

\* Both routes of routes/fetch.py on one service.
RoutesNext ==
    \/ \E r \in Requests, q \in RouteInputs : FetchPage(r, q)
    \/ \E r \in Requests : FetchReturn(r)
    \/ \E r \in Requests : CacheGet(r)
    \/ \E r \in Requests : CacheSet(r)
    \/ BatchNext

SpecRoutes == Init /\ [][RoutesNext]_vars

\* A robots handler on its own, as the handler tests build it: with a store
\* or without one, respecting robots.txt or not.
RobotsInit ==
    /\ FetchInit
    /\ client = TRUE
    /\ redis = FALSE
    /\ LimiterState
    /\ NoCall
    /\ batch = NoBatch
    /\ respect_robots \in BOOLEAN
    /\ robots_redis \in BOOLEAN
    /\ memory_cache = [o \in Origins |-> NoParser]
    /\ robots_kv = [o \in Origins |-> NoText]
    /\ robots_gets = [o \in Origins |-> 0]
    /\ rpc = [c \in Requests |-> "idle"]
    /\ rurl = [c \in Requests |-> UrlInvalid]
    /\ rtext = [c \in Requests |-> NoText]
    /\ rret = [c \in Requests |-> "none"]

RobotsNext ==
    \/ \E c \in Requests, url \in Urls : CanFetch(c, url)
    \/ \E c \in Requests, ok \in BOOLEAN : RobotsRedisGet(c, ok)
    \/ \E c \in Requests, resp \in RobotsResponses : RobotsHttpGet(c, resp)
    \/ \E c \in Requests, ok \in BOOLEAN : RobotsRedisSetex(c, ok)
    \/ \E c \in Requests : CanFetchReturn(c)

SpecRobots == RobotsInit /\ [][RobotsNext]_vars

\* A second document of the origin of UrlSecret, outside its Disallow rule.
UrlPublic == [href |-> "https://blocked.example.com/public", scheme |-> "https",
              netloc |-> "blocked.example.com", path |-> <<"public">>]

\* One caller that awaits each answer of can_fetch before it asks again.
RobotsSeqNext ==
    \/ \E url \in Urls \cup {UrlPublic} : CanFetch(Client, url)
    \/ \E ok \in BOOLEAN : RobotsRedisGet(Client, ok)
    \/ \E resp \in RobotsResponses : RobotsHttpGet(Client, resp)
    \/ \E ok \in BOOLEAN : RobotsRedisSetex(Client, ok)
    \/ CanFetchReturn(Client)

SpecRobotsSeq == RobotsInit /\ [][RobotsSeqNext]_vars

(***************************************************************************)
(* Functions called on their own, as the unit tests call them.             *)
(***************************************************************************)
\* One call, on whatever input, from the state nothing was called in.
Call(fn, in, out) ==
    /\ arg.fn = "none"
    /\ arg' = [fn |-> fn, in |-> in]
    /\ val' = out
    /\ UNCHANGED <<fetchVars, limiterVars, batch, robotsVars>>

ClassifyError(exc) == Call("classify_error", exc, classify_error(exc))

ClassifyHttpError(status_code) ==
    Call("classify_http_error", status_code, classify_http_error(status_code))

\* The names and values make_cache_key is called with.
ParamNames == {"extract_text", "extract_links", "screenshot"}
PyValues == {"True", "False", "None"}

\* The keyword arguments of a call: each name at most once, in any order.
KeyParams ==
    {params \in UNION {[1..n -> ParamNames \X PyValues] : n \in 0..Cardinality(ParamNames)} :
        \A i, j \in 1..Len(params) : params[i][1] = params[j][1] => i = j}

MakeCacheKey(url, params) ==
    Call("make_cache_key", <<url, params>>, make_cache_key(url, params))

\* The text _do_fetch answers with for one fetched document.
ContentText(content_type, body, extracted) ==
    Call("content_text", <<content_type, body, extracted>>,
         content_text(content_type, body, extracted))

\* The clock readings evalsha passes are those of the calling process: one
\* that started later reads up to MaxSkew seconds less than last_refill.
MaxSkew == 2

\* The buckets the script finds in the store, and the seconds between the
\* reading of the caller and last_refill.
BucketLevels == {-1} \cup 0..BucketCap
ClockReadings == (0 - MaxSkew)..BucketCap

\* One evaluation of the script.
EvalScript(t, e) == Call("token_bucket", <<t, e>>, TokenBucket(t, e))

\* await fetcher.fetch(url) on a fetcher that was started or not, up to its
\* first await: the result it returns at once, or none yet.
Fetch(q) == Call("fetch", q, EnterFetch(Client, q).result)

\* The responses, documents and waits one attempt is run on: every header
\* under every status, a page and a .pdf path, every strategy with and
\* without a selector, a delay of none or of the default.
AttemptHeaders ==
    Headers \cup {"application/octet-stream", "application/xhtml+xml", "image/bmp"}
            \cup DOMAIN Canonical

AttemptNavs ==
    {nav \in NavOutcomes : nav.kind # "response"}
    \cup [kind : {"response"}, exc : {ExcCrash}, status : Statuses,
          header : AttemptHeaders, body : {TRUE}]

\* One attempt from the return of goto on: its result and the calls it made.
FetchOnce(url, take_screenshot, nav, wait_strategy, selector, wait_ms, fails) ==
    Call("_fetch_once",
         [url |-> url, take_screenshot |-> take_screenshot, nav |-> nav,
          wait_strategy |-> wait_strategy, wait_for_selector |-> selector,
          wait_after_load_ms |-> wait_ms, fails |-> fails],
         [result |-> fetch_once_waited(url, take_screenshot, nav, wait_strategy,
                                       selector, wait_ms, fails),
          calls |-> page_calls(url, take_screenshot, nav, wait_strategy,
                               selector, wait_ms, fails)])

\* The defaults of the settings (config.py), in model units.
PAGE_TIMEOUT_MS == 3
WAIT_AFTER_LOAD_MS == 2

\* An optional integer of a request: absent (None) or given with a value.
Absent == [given |-> FALSE, ms |-> 0]
Supplied(ms) == [given |-> TRUE, ms |-> ms]
OptionalMs == {Absent} \cup {Supplied(ms) : ms \in 0..1}

\* Python's "value or default": the default for None and for 0.
or_default(value, default) ==
    IF value.given /\ value.ms # 0 THEN value.ms ELSE default

\* PageFetcher.fetch lines 254-257: a selector with strategy load makes the
\* strategy selector.
effective_strategy(wait_strategy, selector) ==
    IF selector /\ wait_strategy = "load" THEN "selector" ELSE wait_strategy

\* fetch lines 254-260: what the attempts are run with.
FetchArguments(wait_strategy, selector, timeout_ms, wait_after_load_ms) ==
    Call("fetch_arguments",
         [wait_strategy |-> wait_strategy, wait_for_selector |-> selector,
          timeout_ms |-> timeout_ms, wait_after_load_ms |-> wait_after_load_ms],
         [wait_strategy |-> effective_strategy(wait_strategy, selector),
          timeout_ms |-> or_default(timeout_ms, PAGE_TIMEOUT_MS),
          wait_after_load_ms |-> or_default(wait_after_load_ms, WAIT_AFTER_LOAD_MS)])

PureNext ==
    \/ \E exc \in AllExceptions : ClassifyError(exc)
    \/ \E status_code \in ErrorStatuses : ClassifyHttpError(status_code)
    \/ \E url \in Urls, params \in KeyParams : MakeCacheKey(url, params)
    \/ \E content_type \in TextTypes, body, extracted \in Texts :
           ContentText(content_type, body, extracted)
    \/ \E t \in BucketLevels, e \in ClockReadings : EvalScript(t, e)
    \/ \E q \in TaskInputs \cup {NoReq} : Fetch(q)
    \/ /\ arg.fn = "none"
       /\ \E url \in {UrlPage, UrlPdf}, take_screenshot, selector, fails \in BOOLEAN,
             nav \in AttemptNavs, wait_strategy \in AllStrategies,
             wait_ms \in {0, WAIT_AFTER_LOAD_MS} :
              FetchOnce(url, take_screenshot, nav, wait_strategy, selector, wait_ms,
                        fails)
    \/ \E wait_strategy \in AllStrategies, selector \in BOOLEAN,
          timeout_ms, wait_after_load_ms \in OptionalMs :
           FetchArguments(wait_strategy, selector, timeout_ms, wait_after_load_ms)

SpecPure == Init /\ [][PureNext]_vars

(***************************************************************************)
(* The cache layer on its own and under the pipeline: a client that sends  *)
(* cached requests for one page, and calls of CacheLayer.set,              *)
(* CacheLayer.get and DELETE /cache/{url_hash} between them.                *)
(***************************************************************************)
\* The requests of the client: one page, cached, with or without screenshot.
CacheInputs == {q \in ReqInputs : q.url = UrlPage /\ q.cache}

\* The key the direct calls of set and get use; no request has it.
DirectKey == CacheKey(CHOOSE q \in ReqInputs : q.url = UrlSecret)

\* The keys DELETE /cache/{url_hash} is called with.
InvalidateKeys == {CacheKey(q) : q \in CacheInputs} \cup {DirectKey}

\* The responses handed to CacheLayer.set directly: what the pipeline
\* assembles, as assembled or as returned from the cache.
CacheValues ==
    LET built == {BuildResponse(q, fetch_once(q.url, q.screenshot, nav, elapsed_ms(Client))) :
                     q \in CacheInputs, nav \in PoolNavOutcomes}
    IN  built \cup {[v EXCEPT !.cached = TRUE] : v \in built}

\* CacheLayer.invalidate (lines 117-134): whether the DELETE removed a key,
\* and the store afterwards; False without a client, with the cache
\* disabled, or when the store raises.
CacheLayer_invalidate(key) ==
    IF client /\ storeUp
    THEN [deleted |-> cacheStore[key] # NoData,
          store |-> [cacheStore EXCEPT ![key] = NoData]]
    ELSE [deleted |-> FALSE, store |-> cacheStore]

\* A call on the cache layer made while no request is in flight leaves the
\* fetcher and the client's request alone.
DirectCall(fn, in, out, store) ==
    /\ pc[Client] = "idle"
    /\ arg' = [fn |-> fn, in |-> in]
    /\ val' = out
    /\ cacheStore' = store
    /\ UNCHANGED <<started, semaphore, page, pc, req, attempt, result, response,
                   storeUp, client, sleepLeft, sinceFetch, calls, navs, sleeps>>
    /\ UNCHANGED <<limiterVars, batch, robotsVars>>

\* await cache.set(key, value): returns None.
Set(key, value) ==
    DirectCall("cache.set", <<key, value>>, NoEntry, CacheLayer_set(key, value))

\* await cache.get(key).
Get(key) == DirectCall("cache.get", <<key>>, CacheLayer_get(key), cacheStore)

\* DELETE /cache/{url_hash} (invalidate_cache): {"deleted": ...}.
invalidate_cache(key) ==
    LET out == CacheLayer_invalidate(key)
    IN  DirectCall("cache.invalidate", <<key>>, [deleted |-> out.deleted], out.store)

\* CacheLayer without a client (never connected, or CACHE_ENABLED false), or
\* connected to an empty store.
CacheInit ==
    /\ FetchInit
    /\ client \in BOOLEAN
    /\ redis = FALSE
    /\ LimiterState
    /\ NoCall
    /\ batch = NoBatch
    /\ NoRobots

CacheNext ==
    \/ \E q \in CacheInputs : Begin(Client, q)
    \/ CacheGet(Client)
    \/ \E out \in PoolCallOutcomes : NewPage(Client, out)
    \/ \E nav \in PoolNavOutcomes : Navigate(Client, nav)
    \/ \E out \in PoolCallOutcomes : ClosePage(Client, out)
    \/ BackoffDone(Client)
    \/ CacheSet(Client)
    \/ Deliver(Client)
    \/ StoreDown
    \/ Tick
    \/ \E value \in CacheValues : Set(DirectKey, value)
    \/ Get(DirectKey)
    \/ \E key \in InvalidateKeys : invalidate_cache(key)

SpecCache == CacheInit /\ [][CacheNext]_vars

(***************************************************************************)
(* Concurrency bound.                                                      *)
(***************************************************************************)

\* C1: at every moment the number of open pages is at most
\* MAX_CONCURRENT_PAGES, and active_pages lies in 0..MAX_CONCURRENT_PAGES.
C1_PageLimit ==
    /\ Cardinality(OpenPages) <= MAX_CONCURRENT_PAGES
    /\ active_pages >= 0
    /\ active_pages <= MAX_CONCURRENT_PAGES

\* Every slot is taken by an open page while another fetch waits for one.
C1_Witness ==
    /\ Cardinality(OpenPages) = MAX_CONCURRENT_PAGES
    /\ \E r \in Requests : pc[r] = "wait_slot"

(***************************************************************************)
(* Retry loop.                                                             *)
(***************************************************************************)

\* The request's fetch has returned with an error that is retryable.
FailedRetryable(r) ==
    /\ pc[r] = "done"
    /\ result[r] # NoResult
    /\ result[r].error # NoError
    /\ result[r].error.retryable

\* C2: one fetch creates at most MAX_RETRIES + 1 pages, and exactly
\* MAX_RETRIES + 1 when every attempt failed with a retryable error (which is
\* the case exactly when the fetch returns a retryable error).
C2_AttemptBudget ==
    \A r \in Requests :
        /\ navs[r] <= MAX_RETRIES + 1
        /\ FailedRetryable(r) => navs[r] = MAX_RETRIES + 1

\* A fetch has used its whole budget and returned a retryable error.
C2_Witness ==
    \E r \in Requests : FailedRetryable(r) /\ navs[r] = MAX_RETRIES + 1

\* An attempt of r ends in this step and fetch goes on within _do_fetch or
\* within the retry loop.
AttemptEnds(r) ==
    /\ pc[r] \in {"new_page", "close"}
    /\ pc'[r] \in {"sleep", "done", "cache_set"}

\* C3: after an attempt the fetch makes a further attempt if and only if the
\* attempt returned an error marked retryable and fewer than MAX_RETRIES
\* retries were made so far; otherwise it stops at once, and what it returns
\* is the result of that last attempt.
C3_RetryDecision ==
    [][\A r \in Requests :
          AttemptEnds(r) =>
              /\ (pc'[r] = "sleep") <=>
                     /\ result'[r].error # NoError
                     /\ result'[r].error.retryable
                     /\ attempt[r] < MAX_RETRIES
              /\ pc[r] = "close" => result'[r] = result[r]
              /\ pc'[r] = "sleep" => navs'[r] = attempt'[r] /\ attempt'[r] = attempt[r] + 1
              /\ pc'[r] # "sleep" =>
                     /\ navs'[r] = attempt[r] + 1
                     /\ response'[r] = BuildResponse(req[r], result'[r])]_vars

\* A fetch stopped after one attempt on an HTTP error that is not retryable.
C3_Witness ==
    \E r \in Requests :
        /\ pc[r] = "done"
        /\ navs[r] = 1
        /\ result[r] # NoResult
        /\ result[r].error # NoError
        /\ ~result[r].error.retryable
        /\ result[r].error.type = "http_error"

\* C4: no sleep precedes the first attempt, the sleep between attempt k and
\* attempt k + 1 is 2^(k-1) seconds, and no sleep follows the last attempt;
\* with MAX_RETRIES = 2 a fetch whose attempts all time out makes three
\* attempts, sleeps 1 s and 2 s, and returns a retryable timeout error.
C4_Backoff ==
    \A r \in Requests :
        /\ \A k \in 1..Len(sleeps[r]) : sleeps[r][k] = 2 ^ (k - 1)
        /\ Len(sleeps[r]) = IF pc[r] \in {"sleep", "new_page"}
                            THEN navs[r]
                            ELSE Max(navs[r] - 1, 0)
        /\ pc[r] = "sleep" => sleepLeft[r] <= 2 ^ (navs[r] - 1)
        /\ (pc[r] = "done" /\ result[r] # NoResult
                /\ result[r].error # NoError /\ result[r].error.type = "timeout")
            => /\ navs[r] = 3
               /\ sleeps[r] = <<1, 2>>
               /\ result[r].error.retryable
               /\ response[r].error = result[r].error

\* Three attempts timed out, with sleeps of 1 s and 2 s between them.
C4_Witness ==
    \E r \in Requests :
        /\ pc[r] = "done"
        /\ result[r] # NoResult
        /\ result[r].error # NoError
        /\ result[r].error.type = "timeout"
        /\ sleeps[r] = <<1, 2>>


(***************************************************************************)
(* Response cache.                                                         *)
(***************************************************************************)

\* Request r awaits cache.get and the store holds an entry for its key.
CacheHit(r) ==
    /\ pc[r] = "cache_get"
    /\ req[r].cache
    /\ client
    /\ storeUp
    /\ Stored(CacheKey(req[r])) # NoEntry

\* C5: when request.cache is true and the cache holds an entry for the
\* request's key, the pipeline returns that entry with cached = true although
\* the stored copy has cached = false, and does nothing else: the fetcher is
\* not called, no page is created, nothing is navigated and the cache is not
\* written.
C5_CacheHit ==
    [][\A r \in Requests :
          (CacheHit(r) /\ pc'[r] # pc[r]) =>
              LET entry == Stored(CacheKey(req[r]))
              IN  /\ pc'[r] = "done"
                  /\ ~entry.cached
                  /\ response'[r] = [entry EXCEPT !.cached = TRUE]
                  /\ calls'[r] = <<"cache.get">>
                  /\ navs'[r] = 0
                  /\ page' = page
                  /\ semaphore' = semaphore
                  /\ cacheStore' = cacheStore]_vars

\* A request was answered from the cache.
C5_Witness ==
    \E r \in Requests :
        /\ pc[r] = "done"
        /\ response[r].cached
        /\ response[r].content_text = "html_text"
        /\ calls[r] = <<"cache.get">>

\* C6: every entry written to the response cache has a null screenshot,
\* whatever the content type and also when the request asked for a
\* screenshot; the response returned to the caller keeps its screenshot.
C6_NoScreenshotStored ==
    /\ \A k \in CacheKeys : Stored(k).screenshot_base64 = "none"
    /\ \A r \in Requests :
           (pc[r] \in {"cache_set", "done"} /\ result[r].screenshot_bytes)
               => response[r].screenshot_base64 = "png_base64"

\* A request that asked for a screenshot and for caching was answered with
\* its screenshot, and the entry written for it has none.
C6_Witness ==
    \E r \in Requests :
        /\ pc[r] = "done"
        /\ req[r].cache /\ req[r].screenshot
        /\ calls[r] = <<"cache.get", "fetcher.fetch", "cache.set">>
        /\ response[r].screenshot_base64 = "png_base64"
        /\ Stored(CacheKey(req[r])) # NoEntry
        /\ Stored(CacheKey(req[r])).screenshot_base64 = "none"

(***************************************************************************)
(* Rate limit and robots gates of the pipeline.                            *)
(***************************************************************************)

\* The positions of component c in the calls of request r.
CallsOf(r, c) == {i \in 1..Len(calls[r]) : calls[r][i] = c}

\* C7: a request that misses or bypasses the cache acquires exactly one rate
\* limit token for its origin before the robots decision, and has the robots
\* decision before its first navigation; its retries acquire no further
\* token.
C7_GatesBeforeNavigation ==
    \A r \in Requests :
        navs[r] >= 1 =>
            /\ Cardinality(CallsOf(r, "limiter.acquire")) = 1
            /\ Cardinality(CallsOf(r, "robots.can_fetch")) = 1
            /\ \A i \in CallsOf(r, "limiter.acquire"), j \in CallsOf(r, "robots.can_fetch") :
                   i < j

\* C8: for a URL the origin's robots rules deny, the pipeline answers with
\* status_code 0, error type blocked_by_robots_txt, retryable false and no
\* content fields, and navigates nothing for the request.
C8_RobotsDenied ==
    \A r \in Requests :
        (pc[r] # "idle" /\ started /\ ~RobotsAllows(req[r].url)) =>
            /\ navs[r] = 0
            /\ pc[r] = "done" =>
                   response[r] = FetchResponse(req[r].url.href, 0, "none", "none",
                                     "none", "none", "none",
                                     FetchError("blocked_by_robots_txt", FALSE, 0))

\* C9: two fetches to the same origin, one after the other, enter the fetch
\* path at least MIN_DELAY_BETWEEN_REQUESTS apart.
C9_MinDelay ==
    [][\A r \in Requests :
          calls'[r] = Append(calls[r], "fetcher.fetch") =>
              LET o == Origin(req'[r].url)
              IN  sinceFetch[o] = -1 \/ sinceFetch[o] >= MIN_DELAY_BETWEEN_REQUESTS]_vars


(***************************************************************************)
(* Rate limiter.                                                           *)
(***************************************************************************)

\* The domain the step of caller c is about.
StepDomain(c) == IF lpc[c] = "idle" THEN domain'[c] ELSE domain[c]

\* No caller other than c is inside acquire for domain d.
Alone(c, d) ==
    \A c2 \in Requests \ {c} : domain[c2] = d => lpc[c2] \in {"idle", "acquired"}

\* C10: rate limiting is independent across origins.  A caller waits for a
\* lock only behind callers of its own domain; a step of an acquire leaves
\* the lock, the queue, the last-request stamp and the bucket of every other
\* domain as they are; and an acquire for a domain that nobody else is
\* acquiring and that is past its minimum delay returns at once, whatever
\* the callers of other domains are waiting for.
C10_Independent ==
    [][\A c \in Requests :
          /\ lpc'[c] = "wait_lock" =>
                 LET k == LockKey(domain'[c])
                 IN  /\ memory_locks'[k] # 0 => domain'[memory_locks'[k]] = domain'[c]
                     /\ \A i \in 1..Len(lock_waiters'[k]) :
                            domain'[lock_waiters'[k][i]] = domain'[c]
          /\ lpc'[c] # lpc[c] =>
                 \A d \in Domains \ {StepDomain(c)} :
                     /\ memory_elapsed'[d] = memory_elapsed[d]
                     /\ memory_locks'[LockKey(d)] = memory_locks[LockKey(d)]
                     /\ lock_waiters'[LockKey(d)] = lock_waiters[LockKey(d)]
                     /\ tokens'[BucketKey(d)] = tokens[BucketKey(d)]
                     /\ refill_elapsed'[BucketKey(d)] = refill_elapsed[BucketKey(d)]
          /\ (/\ lpc[c] = "idle" /\ lpc'[c] # "idle" /\ ~redis
              /\ Alone(c, domain'[c])
              /\ memory_elapsed[domain'[c]] >= MIN_DELAY_BETWEEN_REQUESTS)
                 => lpc'[c] = "acquired"]_vars

\* A caller has slept a second holding the lock of its domain, and after
\* that second another caller was given its token for another domain.
C10_Witness ==
    \E c1, c2 \in Requests :
        /\ lpc[c1] = "memory_sleep" /\ wait_left[c1] = 0
        /\ memory_locks[LockKey(domain[c1])] = c1
        /\ lpc[c2] = "acquired"
        /\ domain[c2] # domain[c1]
        /\ memory_elapsed[domain[c2]] = 0


(***************************************************************************)
(* Error taxonomy.                                                         *)
(***************************************************************************)

\* The retryable flag the taxonomy gives an error of type t with HTTP
\* status st.
Taxonomy(t, st) ==
    CASE t \in {"timeout", "dns_error", "connection_error", "rate_limited"} -> TRUE
      [] t = "http_error" -> st \in {502, 503, 504}
      [] OTHER -> FALSE

\* C11: the retryable flag of every classified error is the one the
\* taxonomy gives its type and HTTP status: timeout, dns_error,
\* connection_error and rate_limited are retryable, http_error exactly for
\* 502, 503 and 504, every other type is not; rate_limited is the type of
\* status 429 alone.
C11_Taxonomy ==
    arg.fn \in {"classify_error", "classify_http_error"} =>
        /\ val.retryable = Taxonomy(val.type, val.http_status)
        /\ val.type # "none"
        /\ arg.fn = "classify_http_error" =>
               /\ val.http_status = arg.in
               /\ val.type = IF arg.in = 429 THEN "rate_limited" ELSE "http_error"

\* Status 500 was classified: an http_error that is not retryable.
C11_Witness ==
    /\ arg.fn = "classify_http_error"
    /\ arg.in = 500
    /\ val = FetchError("http_error", FALSE, 500)


(***************************************************************************)
(* Pages and slots.                                                        *)
(***************************************************************************)

\* The requests that hold a page slot: inside the semaphore block.
SlotHolders ==
    {r \in Requests : pc[r] \in {"new_page", "navigate", "close", "sleep", "cancel_close"}}

\* No request is inside PageFetcher.fetch.
AllFinished == \A r \in Requests : r \notin SlotHolders /\ pc[r] # "wait_slot"

\* C12: a page is open only within the attempt that created it and is
\* closed before that attempt returns, on success, on an error and on an
\* exception alike, hence while the request still holds its slot; when no
\* request is in flight no page is open and active_pages is 0.
C12_PageClosed ==
    /\ \A r \in Requests :
           page[r] => pc[r] \in {"navigate", "close", "cancel_close"}
    /\ OpenPages \subseteq SlotHolders
    /\ Cardinality(OpenPages) <= active_pages
    /\ AllFinished => OpenPages = {} /\ active_pages = 0

\* Attempts that ended in exceptions have all returned; nothing is open.
C12_Witness ==
    /\ AllFinished
    /\ OpenPages = {}
    /\ active_pages = 0
    /\ \E r \in Requests :
           /\ pc[r] = "done"
           /\ result[r].error.type = "timeout"
           /\ navs[r] = MAX_RETRIES + 1

\* C13: a request cancelled while it waits for the slot, creates its page,
\* navigates or waits on the page, or sleeps between attempts gives back the
\* slot it holds and closes the page it has: the free slots are again what
\* they were without the request, and no page of it stays open.
C13_CancelReleases ==
    [][/\ semaphore' = MAX_CONCURRENT_PAGES - Cardinality(SlotHolders')
       /\ \A r \in Requests :
              (pc'[r] = "cancelled" /\ pc[r] # "cancelled") =>
                  /\ ~page'[r]
                  /\ semaphore' = IF r \in SlotHolders THEN semaphore + 1
                                  ELSE semaphore
       /\ \A r \in Requests :
              (pc'[r] = "cancel_close" /\ pc[r] # "cancel_close") =>
                  page[r] /\ page'[r] /\ semaphore' = semaphore]_vars

\* A request was cancelled during its navigation; its page is closed and
\* every slot is free again.
C13_Witness ==
    \E r \in Requests :
        /\ pc[r] = "cancelled"
        /\ navs[r] >= 1
        /\ sleeps[r] = <<>>
        /\ ~page[r]
        /\ AllFinished
        /\ semaphore = MAX_CONCURRENT_PAGES


(***************************************************************************)
(* Batches.                                                                *)
(***************************************************************************)

\* The response a batch gives for a request whose task raised.
RaisedResponse(q) ==
    FetchResponse(q.url.href, 0, "none", "none", "none", "none", "none",
                  FetchError("browser_error", FALSE, 0))

\* C14: a batch of n requests is answered with exactly n results, and
\* results[i] is the outcome of requests[i] whatever the order the tasks
\* finished in; a request whose pipeline raised has status_code 0 and a
\* browser_error that is not retryable in its place, the results of the
\* other requests are what their tasks returned, and the batch succeeds.
C14_BatchOrder ==
    (batch.phase = "answered" /\ batch.http = 200) =>
        /\ Len(batch.results) = Len(batch.requests)
        /\ \A i \in 1..Len(batch.requests) :
               /\ req[i] = batch.requests[i]
               /\ batch.results[i].url = batch.requests[i].url.href
               /\ pc[i] = "done" => batch.results[i] = response[i]
               /\ pc[i] # "done" => batch.results[i] = RaisedResponse(batch.requests[i])

\* A batch of two requests for two URLs was answered: the task of the first
\* raised, the task of the second returned its page.
C14_Witness ==
    /\ batch.phase = "answered"
    /\ batch.http = 200
    /\ Len(batch.results) = 2
    /\ pc[1] = "raised"
    /\ batch.results[1].error.type = "browser_error"
    /\ pc[2] = "done"
    /\ batch.results[2].error = NoError
    /\ batch.results[2].status_code = 200
    /\ batch.results[1].url # batch.results[2].url

\* C15: a batch of 0 requests or of more than 10 requests is rejected with
\* 422 and nothing is done for any of its requests: no cache lookup, no
\* page, no navigation.
C15_BatchRejected ==
    batch.phase # "none" =>
        /\ (Len(batch.requests) = 0 \/ Len(batch.requests) > 10) <=> batch.http = 422
        /\ batch.http = 422 =>
               /\ batch.phase = "answered"
               /\ \A r \in Requests :
                      /\ pc[r] = "idle"
                      /\ calls[r] = <<>>
                      /\ navs[r] = 0
                      /\ ~page[r]
               /\ semaphore = MAX_CONCURRENT_PAGES

\* A batch of 11 requests was rejected.
C15_Witness ==
    /\ batch.phase = "answered"
    /\ batch.http = 422
    /\ Len(batch.requests) = 11

\* The cache layer has no store to talk to: no client or the cache disabled,
\* or a store that raises on every call.
Degraded == ~client \/ ~storeUp

\* C16: when the store of the response cache is absent, disabled or raises,
\* CacheLayer.get returns None, CacheLayer.set changes nothing and
\* CacheLayer.invalidate returns False, none of them raises to its caller,
\* and a pipeline fetch goes on to the fetcher and completes with the
\* response it assembled from the fetch.
C16_Degrades ==
    [][Degraded =>
          /\ Get(DirectKey) => val' = NoEntry
          /\ \A value \in CacheValues :
                 Set(DirectKey, value) => val' = NoEntry /\ cacheStore' = cacheStore
          /\ \A key \in InvalidateKeys :
                 invalidate_cache(key) =>
                     val' = [deleted |-> FALSE] /\ cacheStore' = cacheStore
          /\ \A r \in Requests :
                 /\ (pc[r] = "cache_get" /\ pc'[r] # pc[r]) =>
                        /\ pc'[r] \in {"new_page", "wait_slot"}
                        /\ calls'[r] = <<"cache.get", "fetcher.fetch">>
                 /\ (pc[r] = "cache_set" /\ pc'[r] # pc[r]) =>
                        /\ pc'[r] = "done"
                        /\ response'[r] = BuildResponse(req[r], result[r])
                        /\ ~response'[r].cached
                        /\ cacheStore' = cacheStore]_vars

\* Without a cache client an invalidation was answered with deleted false,
\* and a cached request then completed with the page it fetched.
C16_Witness ==
    /\ ~client
    /\ arg.fn = "cache.invalidate"
    /\ val = [deleted |-> FALSE]
    /\ pc[Client] = "done"
    /\ calls[Client] = <<"cache.get", "fetcher.fetch", "cache.set">>
    /\ response[Client].content_text = "html_text"
    /\ \A k \in CacheKeys : cacheStore[k] = NoData

\* The last direct call stored a value under the direct key, the store is
\* reachable, and the value is now read back.
SetThenGet ==
    /\ arg.fn = "cache.set"
    /\ client
    /\ storeUp
    /\ Get(DirectKey)

Given(params) == {params[i] : i \in 1..Len(params)}
NonNull(params) == {m \in Given(params) : m[2] # "None"}

\* C18: make_cache_key(url, **p) returns the same key whenever it is called
\* with the same arguments, the same key for every ordering of the
\* parameters, and the same key whether a parameter is absent or passed as
\* None; calls that differ in the url or in a parameter that is not None
\* hash different canonical inputs; the key is 64 lowercase hex characters.
C18_CacheKey ==
    arg.fn = "make_cache_key" =>
        LET url == arg.in[1]
            p == arg.in[2]
            raw == json_dumps(key_data(url, p))
            chars == HexChars(sha256(raw))
        IN  /\ val = make_cache_key(url, p)
            /\ \A p2 \in KeyParams :
                   Given(p2) = Given(p) => make_cache_key(url, p2) = val
            /\ \A p2 \in KeyParams :
                   NonNull(p2) = NonNull(p) => make_cache_key(url, p2) = val
            /\ \A url2 \in Urls, p2 \in KeyParams :
                   (url2.href # url.href \/ NonNull(p2) # NonNull(p))
                       => json_dumps(key_data(url2, p2)) # raw
            /\ Len(val) = 2 * DigestSize
            /\ val = Join(chars)
            /\ \A i \in 1..Len(chars) :
                   \E d \in 1..Len(HexDigits) : chars[i] = HexDigits[d]

\* A key was made from three parameters given out of order, one of them
\* None.
C18_Witness ==
    /\ arg.fn = "make_cache_key"
    /\ arg.in[2] = <<<<"screenshot", "True">>, <<"extract_text", "None">>,
                     <<"extract_links", "False">>>>
    /\ Len(val) = 2 * DigestSize

\* Requests q1 and q2 are for the same URL with the same flags and differ
\* in the wait strategy.
DifferInWait(q1, q2) ==
    /\ [q1 EXCEPT !.wait_strategy = q2.wait_strategy] = q2
    /\ q1.wait_strategy # q2.wait_strategy

\* Request r1 has fetched its page and stored the response, and request r2
\* has been answered from the cache with that response.
ServedEntryOf(r1, r2) ==
    /\ pc[r1] = "done"
    /\ calls[r1] = <<"cache.get", "fetcher.fetch", "cache.set">>
    /\ pc[r2] = "done"
    /\ calls[r2] = <<"cache.get">>
    /\ response[r2] = [CacheCopy(response[r1]) EXCEPT !.cached = TRUE]

\* C19: the cache key covers the wait strategy, so of two requests for the
\* same URL that differ only in wait_strategy the second is never answered
\* with the entry the first one stored.
C19_KeyCoversWait ==
    \A r1, r2 \in Requests :
        (pc[r1] # "idle" /\ pc[r2] # "idle" /\ DifferInWait(req[r1], req[r2])) =>
            ~ServedEntryOf(r1, r2)

(***************************************************************************)
(* Error responses.                                                        *)
(***************************************************************************)

\* The response has none of the content fields.
NoContent(resp) ==
    /\ resp.content_text = "none"
    /\ resp.metadata = "none"
    /\ resp.links = "none"
    /\ resp.screenshot_base64 = "none"
    /\ resp.structured_data = "none"

C21_TextBounded ==
    arg.fn = "content_text" => Len(val) <= MAX_CONTENT_LENGTH

\* The part that holds: the text of an HTML response is bounded.
C21_HtmlBounded ==
    (arg.fn = "content_text" /\ arg.in[1] \in HTML_TYPES)
        => Len(val) <= MAX_CONTENT_LENGTH

\* The status POST /fetch is answered with: the framework answers 500 when
\* the handler raised.
Answer(r) == IF pc[r] = "raised" THEN 500 ELSE response[r].http

\* Nothing was done for request r: no cache lookup, no fetch, no page, no
\* result to extract from.
Untouched(r) ==
    /\ calls[r] = <<>>
    /\ navs[r] = 0
    /\ ~page[r]
    /\ result[r] = NoResult

\* POST /fetch of r is answered.
FetchAnswered(r) == batch.phase = "none" /\ pc[r] \in {"done", "raised"}

\* POST /batch with a body that passed validation is answered.
BatchAnswered == batch.phase = "answered" /\ BatchValid(batch.requests)

\* The 503 part, which both forms state: 503 exactly when the browser is
\* not connected, and then nothing is done.
Unavailable ==
    /\ \A r \in Requests :
           FetchAnswered(r) =>
               /\ Answer(r) = 503 <=> ~started
               /\ ~started => response[r] = Http503 /\ Untouched(r)
    /\ BatchAnswered =>
           /\ batch.http = 503 <=> ~started
           /\ ~started => batch.results = <<>> /\ \A r \in Requests : Untouched(r)

RobotsFailed(resp) == resp.kind = "raise" \/ resp.status # 200

C24_AllowAllStored ==
    [][\A c \in Requests :
          /\ \A resp \in RobotsResponses :
                 (RobotsFailed(resp) /\ RobotsHttpGet(c, resp)) =>
                     memory_cache'[Origin(rurl[c])] = AllowAll
          /\ \A url \in Urls :
                 (memory_cache[Origin(url)].present /\ CanFetch(c, url)) =>
                     /\ robots_gets' = robots_gets
                     /\ rpc'[c] = "done"]_vars

\* The part that holds: an answer with another status than 200 leaves the
\* allow-all record in the memory cache, and an origin with a record is
\* not fetched again.
C24_Non200Stored ==
    [][\A c \in Requests :
          /\ \A resp \in RobotsResponses :
                 (resp.kind = "response" /\ resp.status # 200 /\ RobotsHttpGet(c, resp)) =>
                     memory_cache'[Origin(rurl[c])] = AllowAll
          /\ \A url \in Urls :
                 (memory_cache[Origin(url)].present /\ CanFetch(c, url)) =>
                     /\ robots_gets' = robots_gets
                     /\ rpc'[c] = "done"]_vars

\* The callers that wait for the robots.txt of origin o.
RobotsFetchers(o) == {c \in Requests : rpc[c] = "http_get" /\ Origin(rurl[c]) = o}

\* C25: of the can_fetch calls for one origin that run at the same time
\* and miss the robots cache, one fetches robots.txt: no two requests for
\* the robots.txt of an origin are in flight together.
C25_SingleFlight ==
    \A o \in Origins : Cardinality(RobotsFetchers(o)) <= 1

\* The bucket the script leaves has between 0 and burst tokens, and a
\* denied call has taken none of them.
BucketKept(t, e) ==
    /\ val.tokens >= 0
    /\ val.tokens <= BucketCap
    /\ val.wait > 0 =>
           val.tokens = (IF t = -1 THEN BucketCap
                         ELSE IF t + e > BucketCap THEN BucketCap ELSE t + e)

\* C26: whatever bucket the script finds and whatever clock reading it is
\* passed, the bucket it leaves has 0 <= tokens <= burst, and a denied
\* acquire takes no token and keeps what has accrued.
C26_BucketBounded ==
    arg.fn = "token_bucket" => BucketKept(arg.in[1], arg.in[2])

\* The part that holds: with a reading that is not before last_refill.
C26_BoundedForward ==
    (arg.fn = "token_bucket" /\ arg.in[2] >= 0) => BucketKept(arg.in[1], arg.in[2])

\* The callers of acquire that wait for a token.
Waiting == {c \in Requests : lpc[c] \in {"memory_sleep", "redis_sleep"}}

\* C27: the limiter is a bucket of capacity burst on either backend:
\* from the full bucket of a new limiter, burst calls of acquire for a
\* domain complete without waiting, so a caller waits for a refill only
\* when burst tokens were handed out for its domain, and it then waits for
\* no longer than one token takes to accrue.
C27_Burst ==
    \A c \in Waiting :
        /\ granted[domain[c]] >= BURST
        /\ wait_left[c] <= MIN_DELAY_BETWEEN_REQUESTS

\* The part that holds: the bucket in the store.
C27_BurstInStore ==
    \A c \in Waiting :
        lpc[c] = "redis_sleep" =>
            /\ granted[domain[c]] >= BURST
            /\ wait_left[c] <= MIN_DELAY_BETWEEN_REQUESTS

\* Caller c is in the in-memory limiter or has its token from it.
InMemoryPath(c) == lpc'[c] \in {"wait_lock", "memory_sleep", "acquired"}

\* C28: when the store raises at a step of acquire (the script load, the
\* script evaluation, first or after a wait), the call goes on in the
\* in-memory limiter and leaves the bucket of the store as it was; no call
\* of acquire ends with an exception, and acquire returns only with the
\* token, that is True.
C28_Fallback ==
    [][\A c \in Requests :
          /\ (ScriptLoad(c, FALSE) \/ Evalsha(c, FALSE)) =>
                 /\ InMemoryPath(c)
                 /\ tokens' = tokens
          /\ lpc'[c] # "raised"
          /\ (lpc[c] # "idle" /\ lpc'[c] = "idle") => lpc[c] = "acquired"]_vars

\* With a store whose bucket for the domain is used up, a caller has a
\* token from the in-memory limiter.
C28_Witness ==
    /\ redis
    /\ script_sha
    /\ lpc[1] = "acquired"
    /\ domain[1] = "example.com"
    /\ tokens[BucketKey("example.com")] = 0
    /\ memory_elapsed["example.com"] = 0

\* Request r is for a url without scheme or host, on a service whose
\* browser is connected.
InvalidUrlRequest(r) ==
    /\ started
    /\ pc[r] # "idle"
    /\ req[r].url.scheme = "" \/ req[r].url.netloc = ""

\* The request is answered with invalid_url by the validation alone: no
\* slot was taken, no page made, no attempt repeated.
RejectedUnfetched(r) ==
    /\ pc[r] \in {"cache_get", "done"}
    /\ pc[r] = "done" =>
           /\ response[r].http = 200
           /\ response[r].error = FetchError("invalid_url", FALSE, 0)
           /\ response[r].status_code = 0
           /\ response[r].content_text = "none"
    /\ semaphore = MAX_CONCURRENT_PAGES
    /\ ~page[r]
    /\ navs[r] = 0
    /\ attempt[r] = 0
    /\ sleeps[r] = <<>>

\* C29: a request whose url has no scheme or no host yields a
\* non-retryable invalid_url error with status_code 0 before any
\* downstream work: no cache lookup, no slot, no page, no retry.
C29_InvalidUrlFirst ==
    \A r \in Requests :
        InvalidUrlRequest(r) =>
            /\ RejectedUnfetched(r)
            /\ CallsOf(r, "cache.get") = {}

\* The part that holds: the validation comes before the slot, the page
\* and the retries, and a request that bypasses the cache is answered
\* without a lookup.
C29_InvalidUrlUnfetched ==
    \A r \in Requests :
        InvalidUrlRequest(r) =>
            /\ RejectedUnfetched(r)
            /\ ~req[r].cache => CallsOf(r, "cache.get") = {}

\* The rows of the taxonomy an exception can match, from the top, and what
\* triggers each.
ExceptionRows == <<"timeout", "dns_error", "ssl_error", "connection_error",
                   "browser_error">>

Triggers(t, exc) ==
    CASE t = "timeout" -> exc.cls = "TimeoutError" \/ "timeout" \in exc.words
      [] t = "dns_error" ->
             exc.words \cap {"dns", "name resolution", "getaddrinfo"} # {}
      [] t = "ssl_error" -> exc.words \cap {"ssl", "certificate"} # {}
      [] t = "connection_error" ->
             \/ exc.words \cap {"connection", "reset", "refused", "broken pipe"} # {}
             \/ exc.cls = "ConnectionError"
      [] OTHER -> TRUE

\* The first row from the top that the exception matches.
FirstRow(exc) ==
    ExceptionRows[CHOOSE i \in 1..Len(ExceptionRows) :
                      /\ Triggers(ExceptionRows[i], exc)
                      /\ \A j \in 1..(i - 1) : ~Triggers(ExceptionRows[j], exc)]

\* The first match wins among the rows of exceptions.
ExceptionPrecedence ==
    arg.fn = "classify_error" => val.type = FirstRow(arg.in)

\* C30: the first matching row of the taxonomy from the top wins:
\* invalid_url before timeout before dns_error before ssl_error before
\* connection_error before browser_error; a url without scheme or host is
\* invalid_url even when the browser is not started.
C30_Precedence ==
    /\ ExceptionPrecedence
    /\ (arg.fn = "fetch" /\ (arg.in.url.scheme = "" \/ arg.in.url.netloc = "")) =>
           val.error.type = "invalid_url"

\* The part that holds: the precedence among exceptions, and invalid_url
\* for a url without scheme or host on a fetcher that was started.
C30_PrecedenceStarted ==
    /\ ExceptionPrecedence
    /\ (arg.fn = "fetch" /\ started
            /\ (arg.in.url.scheme = "" \/ arg.in.url.netloc = "")) =>
           val.error.type = "invalid_url"

\* The attempt that was run on its own, if one was, and what it gave.
AttemptRun == arg.fn = "_fetch_once" /\ arg.in.nav.kind = "response"

\* The dispatch arm a result and its page calls show: the arm is read off
\* what the attempt returned and did, not off the content type.
ArmTaken ==
    LET res == val.result
    IN  {arm \in {"pdf", "json", "text", "image", "html", "unsupported"} :
            CASE arm = "pdf" ->
                     /\ res.error = NoError /\ res.content_type = "application/pdf"
                     /\ res.raw_bytes # "none" /\ val.calls = <<"response.body">>
              [] arm = "json" ->
                     /\ res.error = NoError /\ res.content_type = "application/json"
                     /\ res.raw_bytes = "none" /\ val.calls = <<"response.body">>
              [] arm = "text" ->
                     /\ res.error = NoError /\ res.content_type = "text/plain"
                     /\ res.html = "text" /\ val.calls = <<"page.content">>
              [] arm = "image" ->
                     /\ res.error = NoError /\ res.content_type \in ImageTypes
                     /\ res.html = "" /\ val.calls = <<>>
              [] arm = "html" ->
                     /\ res.error = NoError /\ res.content_type \in HTML_TYPES
                     /\ res.html = "html"
                     /\ \E i \in 1..Len(val.calls) : val.calls[i] = "page.content"
                     /\ res.screenshot_bytes = arg.in.take_screenshot
                     /\ res.screenshot_bytes
                            <=> val.calls[Len(val.calls)] = "page.screenshot"
              [] arm = "unsupported" ->
                     /\ res.error = FetchError("unsupported_content_type", FALSE, 0)
                     /\ res.html = "" /\ res.raw_bytes = "none"
                     /\ ~res.screenshot_bytes /\ val.calls = <<>>}

\* The arm the canonical content type of the response calls for.
ArmCalled ==
    LET content_type == get_content_type(arg.in.nav.header)
    IN  IF \/ content_type = "application/pdf"
           \/ content_type = "application/octet-stream" /\ arg.in.url = UrlPdf
        THEN "pdf"
        ELSE IF content_type = "application/json" THEN "json"
        ELSE IF content_type = "text/plain" THEN "text"
        ELSE IF content_type \in ImageTypes THEN "image"
        ELSE IF content_type \in {"text/html", "application/xhtml+xml"} THEN "html"
        ELSE "unsupported"

\* C31: an attempt whose navigation returned a response with status >= 400
\* yields the HTTP error classification with empty payload and makes no
\* wait, content read or screenshot, whatever the content type; with a lower
\* status exactly one dispatch arm is taken, the one of the canonical
\* content type, and any other type yields the non-retryable
\* unsupported_content_type error.
C31_Dispatch ==
    AttemptRun =>
        IF arg.in.nav.status >= 400
        THEN /\ val.result.error = classify_http_error(arg.in.nav.status)
             /\ val.result.status_code = arg.in.nav.status
             /\ val.result.html = "" /\ val.result.raw_bytes = "none"
             /\ ~val.result.screenshot_bytes
             /\ val.calls = <<>>
        ELSE ArmTaken = {ArmCalled}

\* An error status on a PDF response, and a PDF served as octet-stream.
C31_Witness ==
    /\ AttemptRun
    /\ \/ /\ arg.in.nav.status = 404 /\ arg.in.nav.header = "application/pdf"
          /\ val.result.error.type = "http_error"
       \/ /\ arg.in.nav.status = 200 /\ arg.in.url = UrlPdf
          /\ arg.in.nav.header = "application/octet-stream"
          /\ val.result.content_type = "application/pdf"

\* An attempt run on its own that reached the HTML arm.
HtmlAttempt ==
    /\ AttemptRun
    /\ arg.in.nav.status < 400
    /\ ArmCalled = "html"

\* The places of a call in the page calls of the attempt.
CallPlaces(name) == {i \in 1..Len(val.calls) : val.calls[i] = name}

StrategyWaits == CallPlaces("wait_for_load_state") \cup CallPlaces("wait_for_selector")

C32_WitnessTimeout ==
    /\ HtmlAttempt
    /\ arg.in.wait_strategy = "timeout"
    /\ val.calls = <<"wait_for_timeout", "page.content">>

\* A request that PageFetcher.fetch answers before the semaphore block.
FailsFast(r) == ~started \/ req[r].url.scheme = "" \/ req[r].url.netloc = ""

\* C33: a request holds exactly one semaphore slot from before its first
\* attempt until after its last: the slot is taken once, with the attempt
\* counter at 0, every later attempt and every backoff sleep happens with
\* the slot held and the semaphore untouched, and the slot is given back
\* once on the way out; a request that fails fast (browser not started,
\* invalid URL) never waits for or holds a slot.
C33_SlotHeld ==
    /\ [](/\ semaphore + Cardinality(SlotHolders) = MAX_CONCURRENT_PAGES
          /\ \A r \in Requests :
                /\ pc[r] = "sleep" \/ attempt[r] > 0 => r \in SlotHolders
                /\ FailsFast(r) => r \notin SlotHolders /\ pc[r] # "wait_slot")
    /\ [][\A r \in Requests :
            /\ r \in SlotHolders /\ r \in SlotHolders' /\ pc'[r] # pc[r]
                   => semaphore' = semaphore
            /\ attempt'[r] > attempt[r]
                   => /\ r \in SlotHolders /\ r \in SlotHolders'
                      /\ pc'[r] = "sleep" /\ semaphore' = semaphore
            /\ r \notin SlotHolders /\ r \in SlotHolders'
                   => /\ semaphore' = semaphore - 1
                      /\ attempt'[r] = 0 /\ pc'[r] = "new_page"
            /\ r \in SlotHolders /\ r \notin SlotHolders'
                   => semaphore' = semaphore + 1 /\ pc'[r] # "wait_slot"]_vars

\* One request sleeps before its second retry with the only slot while the
\* other waits for it.
C33_Witness ==
    \E r, r2 \in Requests :
        /\ pc[r] = "sleep" /\ attempt[r] = 2 /\ sleepLeft[r] > 0
        /\ semaphore = 0
        /\ pc[r2] = "wait_slot"

\* A request for an invalid URL that was answered with every slot free.
C33_WitnessFailFast ==
    \E r \in Requests :
        /\ started
        /\ req[r].url = UrlInvalid
        /\ result[r].error.type = "invalid_url"
        /\ semaphore = MAX_CONCURRENT_PAGES

\* The callers inside the critical section of domain d: between taking the
\* lock of d and leaving it.
InCritical(d) == {c \in Requests : lpc[c] = "memory_sleep" /\ domain[c] = d}

\* Caller c completes an acquisition in the in-process limiter in this step.
MemoryCompletes(c) ==
    /\ lpc'[c] = "acquired"
    /\ \/ lpc[c] \in {"wait_lock", "memory_sleep"}
       \/ ~redis /\ lpc[c] = "idle"

\* C34: in the in-process limiter at most one caller is inside the critical
\* section of an origin at a time, and it is the holder of the origin's
\* lock; an acquisition for an origin completes no sooner than
\* MIN_DELAY_BETWEEN_REQUESTS after the one before it for that origin; the
\* first acquisition for an origin completes in the call, without waiting.
C34_MemorySpacing ==
    /\ [](\A d \in Domains :
             /\ Cardinality(InCritical(d)) <= 1
             /\ \A c \in InCritical(d) : memory_locks[LockKey(d)] = c
             /\ memory_locks[LockKey(d)] # 0 => InCritical(d) # {})
    /\ [][\A c \in Requests :
            /\ MemoryCompletes(c) =>
                   /\ memory_elapsed[domain'[c]] >= MIN_DELAY_BETWEEN_REQUESTS
                   /\ memory_elapsed'[domain'[c]] = 0
            /\ ~redis /\ lpc[c] = "idle" /\ lpc'[c] # "idle"
                      /\ granted[domain'[c]] = 0 /\ InCritical(domain'[c]) = {}
                   => lpc'[c] = "acquired"]_vars

\* One caller sleeps in the critical section of a domain that was acquired
\* before, the other queues for the lock.
C34_Witness ==
    \E c, c2 \in Requests :
        /\ ~redis
        /\ lpc[c] = "memory_sleep" /\ lpc[c2] = "wait_lock"
        /\ domain[c] = domain[c2]
        /\ granted[domain[c]] > 0

\* C35: PageFetcher.fetch returns a FetchResult for every outcome: no
\* exception raised during an attempt, by page creation, navigation, a read
\* of the page or the page's close, escapes fetch.
C35_NoEscape == \A r \in Requests : pc[r] # "raised"

\* The part of C35 that the except clause of _fetch_once covers: an
\* exception of new_page or of the navigation and what follows it on the
\* page becomes the classified error of that attempt.
C35_AttemptClassified ==
    [][\A r \in Requests :
          /\ \A out \in CallOutcomes :
                 NewPage(r, out) /\ ~out.ok =>
                     /\ result'[r].error = classify_error(out.exc)
                     /\ pc'[r] # "raised"
          /\ \A nav \in NavOutcomes :
                 Navigate(r, nav) /\ nav.kind = "raise" =>
                     /\ result'[r].error = classify_error(nav.exc)
                     /\ pc'[r] = "close"]_vars

\* The robots.txt of origin o was fetched with status 200 in this step.
Fetched200(o) ==
    \E resp \in RobotsResponses :
        /\ resp.kind = "response" /\ resp.status = 200
        /\ Origin(rurl[Client]) = o
        /\ RobotsHttpGet(Client, resp)

\* C36: for a caller that awaits each answer, a robots.txt fetch answered
\* with 200 leaves a record of the origin in the in-process cache; from
\* then on every can_fetch for a URL of that origin is answered in the call
\* from that record, and no further HTTP fetch of robots.txt is made for
\* the origin; a call changes the record and the fetch count of the origin
\* of its URL only.
C36_OneFetch ==
    [][/\ \A o \in Origins :
            /\ Fetched200(o) =>
                   /\ memory_cache'[o] = parse(ServedText(o))
                   /\ memory_cache'[o].present
            /\ memory_cache[o].present =>
                   /\ memory_cache'[o] = memory_cache[o]
                   /\ robots_gets'[o] = robots_gets[o]
            /\ o # Origin(rurl'[Client]) =>
                   /\ memory_cache'[o] = memory_cache[o]
                   /\ robots_gets'[o] = robots_gets[o]
                   /\ robots_kv'[o] = robots_kv[o]
       /\ \A url \in Urls \cup {UrlPublic} :
            CanFetch(Client, url) /\ respect_robots /\ memory_cache[Origin(url)].present
                => /\ rpc'[Client] = "done"
                   /\ rret'[Client] =
                          IF parser_can_fetch(memory_cache[Origin(url)], url)
                          THEN "True" ELSE "False"]_vars

\* A question about an origin whose robots.txt was fetched once with 200
\* is answered, here with a denial, and the count of fetches of that origin
\* and of another origin asked about is one each.
C36_Witness ==
    /\ respect_robots
    /\ rpc[Client] = "done"
    /\ rurl[Client] = UrlSecret
    /\ rret[Client] = "False"
    /\ memory_cache[Origin(UrlSecret)] = parse(ServedText(Origin(UrlSecret)))
    /\ memory_cache[Origin(UrlPage)].present
    /\ robots_gets[Origin(UrlSecret)] = 1
    /\ robots_gets[Origin(UrlPage)] = 1

\* A request with cache = false is with the pipeline.
Uncached(r) == pc[r] # "idle" /\ ~req[r].cache

\* C37: a request with cache = false makes no cache.get and no cache.set,
\* whatever it fetched and however it ended, and no step taken while it is
\* with the pipeline, its first and its last included, changes the contents
\* of the cache.
C37_CacheBypassed ==
    /\ [](\A r \in Requests :
             Uncached(r) =>
                 /\ pc[r] \notin {"cache_get", "cache_set"}
                 /\ CallsOf(r, "cache.get") = {}
                 /\ CallsOf(r, "cache.set") = {})
    /\ [][(Uncached(Client) \/ Uncached(Client)') => cacheStore' = cacheStore]_vars

\* A request with cache = false was answered with a fetched page while the
\* cache holds the entry an earlier request wrote for the page.
C37_Witness ==
    /\ pc[Client] = "done"
    /\ ~req[Client].cache
    /\ result[Client].error = NoError
    /\ response[Client].content_text = "html_text"
    /\ calls[Client] = <<"fetcher.fetch">>
    /\ \E k \in CacheKeys : Stored(k) # NoEntry

\* The request of r ends in an error in this step.
EndsInError(r) ==
    /\ pc[r] \notin {"done", "idle"}
    /\ pc'[r] = "done"
    /\ response'[r].error # NoError

\* C38: every entry of the response cache has error = null and
\* cached = false and was written for a successful fetch: the write is
\* reached only with a result without error; a request that ends in an
\* error never writes and leaves the contents of the cache as they were, so
\* that the lookup of an identical request that follows it misses.
C38_OnlySuccessCached ==
    /\ [](/\ \A k \in CacheKeys :
                Stored(k) # NoEntry => Stored(k).error = NoError /\ ~Stored(k).cached
          /\ \A r \in Requests :
                /\ pc[r] = "cache_set" =>
                       /\ result[r].error = NoError /\ response[r].error = NoError
                       /\ CallsOf(r, "fetcher.fetch") # {}
                /\ (pc[r] = "done" /\ response[r].error # NoError) =>
                       /\ CallsOf(r, "cache.set") = {}
                       /\ req[r].cache => CacheLayer_get(CacheKey(req[r])) = NoEntry)
    /\ [][\A r \in Requests : EndsInError(r) => cacheStore' = cacheStore]_vars

\* A cached request ended in an unsupported_content_type error after its
\* lookup and its fetch, with an entry of an earlier request in the cache.
C38_Witness ==
    /\ pc[Client] = "done"
    /\ req[Client].cache
    /\ response[Client].error.type = "unsupported_content_type"
    /\ calls[Client] = <<"cache.get", "fetcher.fetch">>
    /\ \E k \in CacheKeys : Stored(k) # NoEntry

\* A cached request ended in an error after its retries were used up.
C38_WitnessRetries ==
    /\ pc[Client] = "done"
    /\ req[Client].cache
    /\ response[Client].error.retryable
    /\ Len(sleeps[Client]) = MAX_RETRIES

\* The value a request asks for with an optional field, or the default.
Requested(value, default) == IF value.given THEN value.ms ELSE default

\* C39: the navigation timeout and the post-load delay the attempts are run
\* with are the request's timeout_ms and wait_after_load_ms whenever the
\* request gives them, the value 0 included, and the defaults
\* PAGE_TIMEOUT_MS and WAIT_AFTER_LOAD_MS only when it leaves them out.
C39_Effective ==
    arg.fn = "fetch_arguments" =>
        /\ val.timeout_ms = Requested(arg.in.timeout_ms, PAGE_TIMEOUT_MS)
        /\ val.wait_after_load_ms =
               Requested(arg.in.wait_after_load_ms, WAIT_AFTER_LOAD_MS)

\* The part of C39 that holds: values other than 0 are taken as given, and
\* an absent value gives the default.
C39_EffectiveNonZero ==
    arg.fn = "fetch_arguments" =>
        /\ arg.in.timeout_ms # Supplied(0) =>
               val.timeout_ms = Requested(arg.in.timeout_ms, PAGE_TIMEOUT_MS)
        /\ arg.in.wait_after_load_ms # Supplied(0) =>
               val.wait_after_load_ms =
                   Requested(arg.in.wait_after_load_ms, WAIT_AFTER_LOAD_MS)

\* Caller c is inside a call of acquire that has not returned.
Acquiring(c) == lpc[c] \notin {"idle", "acquired"}

\* The lock of every domain is held by a caller inside that domain's
\* critical section, or by nobody.
LocksHeldInside ==
    \A k \in LockKeys :
        memory_locks[k] # 0 =>
            /\ lpc[memory_locks[k]] = "memory_sleep"
            /\ LockKey(domain[memory_locks[k]]) = k

\* C40: every call of acquire that is not cancelled eventually returns
\* True, with a store and without, also when another caller contends for
\* the origin and when the store fails while the caller waits; the
\* in-process lock of an origin is free again whenever its holder has left
\* acquire, by return or by cancellation.
C40_Returns ==
    /\ \A c \in Requests : Acquiring(c) ~> (lpc[c] \in {"acquired", "idle"})
    /\ []LocksHeldInside

\* The part of C40 about the lock: it is held only inside the critical
\* section, and a caller cancelled in its sleep leaves it free.
C40_LockReleased ==
    /\ []LocksHeldInside
    /\ [][\A c \in Requests :
             LimiterCancel(c) /\ lpc[c] = "memory_sleep"
                 => memory_locks'[LockKey(domain[c])] = 0]_vars

\* The part of C40 about the in-process limiter: without a store every call
\* that is not cancelled returns True.
C40_MemoryReturns ==
    \A c \in Requests :
        (~redis /\ Acquiring(c)) ~> (lpc[c] \in {"acquired", "idle"})

====
